---- MODULE Spec2Model ----
(***************************************************************************)
(* A model of LiteTableManager (src/src/LiteTable.js): the row cache, the  *)
(* sort / filter / paginate pipeline and the row pool of updateTable().    *)
(*                                                                         *)
(* Strings are sequences of one-character strings, so that the pattern     *)
(* tests and the conversions of the code (the DD/MM/YYYY test, Number,     *)
(* parseFloat, parseDate, trim) are computed and not assumed.  The         *)
(* characters used are the ones of CharSet; the conversions below are the  *)
(* JavaScript ones restricted to that character set.                       *)
(***************************************************************************)
EXTENDS Integers, Sequences, FiniteSets, TLC

\* ------------------------------------------------------------------ bounds

\* The largest number of rows of a source table.
MaxRows == 2

\* --------------------------------------------------------------- characters

Digits == {"0", "1", "2", "3", "4", "5", "6", "7", "8", "9"}

CharSet == Digits \cup {"/", ",", ".", "-", " ", "a", "c", "A", "C"}

DigitVal(ch) ==
    CASE ch = "0" -> 0 [] ch = "1" -> 1 [] ch = "2" -> 2 [] ch = "3" -> 3
      [] ch = "4" -> 4 [] ch = "5" -> 5 [] ch = "6" -> 6 [] ch = "7" -> 7
      [] ch = "8" -> 8 [] ch = "9" -> 9

RECURSIVE Pow10(_)
Pow10(n) == IF n = 0 THEN 1 ELSE 10 * Pow10(n - 1)

Sgn(i) == IF i < 0 THEN -1 ELSE IF i > 0 THEN 1 ELSE 0

\* The value of a run of digits (0 for the empty run).
RECURSIVE DigitsValue(_)
DigitsValue(s) ==
    IF s = <<>> THEN 0
    ELSE 10 * DigitsValue(SubSeq(s, 1, Len(s) - 1)) + DigitVal(s[Len(s)])

\* The length of the longest prefix of s made of digits.
RECURSIVE DigitRun(_)
DigitRun(s) ==
    IF s = <<>> \/ s[1] \notin Digits THEN 0 ELSE 1 + DigitRun(Tail(s))

Drop(s, n) == SubSeq(s, n + 1, Len(s))
Take(s, n) == SubSeq(s, 1, n)

\* String.prototype.trim: white space removed at both ends.
RECURSIVE TrimStart(_)
TrimStart(s) == IF s # <<>> /\ s[1] = " " THEN TrimStart(Tail(s)) ELSE s

RECURSIVE TrimEnd(_)
TrimEnd(s) ==
    IF s # <<>> /\ s[Len(s)] = " " THEN TrimEnd(Take(s, Len(s) - 1)) ELSE s

Trim(s) == TrimEnd(TrimStart(s))

\* String.prototype.replace(',', '.'): the first comma only.
RECURSIVE ReplaceFirstComma(_)
ReplaceFirstComma(s) ==
    IF s = <<>> THEN <<>>
    ELSE IF s[1] = "," THEN <<".">> \o Tail(s)
    ELSE <<s[1]>> \o ReplaceFirstComma(Tail(s))

\* String.prototype.split('/').
RECURSIVE SplitSlash(_)
SplitSlash(s) ==
    LET RECURSIVE upto(_)
        upto(t) == IF t = <<>> \/ t[1] = "/" THEN 0 ELSE 1 + upto(Tail(t))
        n == upto(s)
    IN  IF n = Len(s) THEN <<s>>
        ELSE <<Take(s, n)>> \o SplitSlash(Drop(s, n + 1))

\* ------------------------------------------------------------ JS numbers

\* A JavaScript number: a decimal m / 10^e, NaN or Infinity.
NaN == [k |-> "nan", m |-> 0, e |-> 0]
Infinity == [k |-> "inf", m |-> 0, e |-> 0]
Dec(m, e) == [k |-> "num", m |-> m, e |-> e]
Int2Js(i) == Dec(i, 0)

IsNaN(x) == x.k = "nan"

\* The sign of a - b for two decimals.
DecCompare(a, b) == Sgn(a.m * Pow10(b.e) - b.m * Pow10(a.e))

\* The sign of the JavaScript subtraction a - b, 0 standing for NaN too:
\* Array.prototype.sort reads a NaN returned by the comparator as +0.
SubSign(a, b) ==
    IF a.k = "num" /\ b.k = "num" THEN DecCompare(a, b) ELSE 0

\* ToIntegerOrInfinity of a decimal: truncation towards zero.
Truncate(x) ==
    IF x.m >= 0 THEN x.m \div Pow10(x.e) ELSE -((-x.m) \div Pow10(x.e))

\* A StrDecimalLiteral read at the head of s: [len |-> characters read
\* (0 when there is none), val |-> its value].  sign? digits [. digits] or
\* sign? . digits
DecimalPrefix(s) ==
    LET signed == s # <<>> /\ s[1] \in {"+", "-"}
        body   == IF signed THEN Tail(s) ELSE s
        n1     == DigitRun(body)
        rest   == Drop(body, n1)
        dot    == rest # <<>> /\ rest[1] = "."
        n2     == IF dot THEN DigitRun(Tail(rest)) ELSE 0
        used   == IF n1 = 0 /\ n2 = 0 THEN 0
                  ELSE (IF signed THEN 1 ELSE 0) + n1 + (IF dot THEN 1 + n2 ELSE 0)
        mant   == DigitsValue(Take(body, n1)) * Pow10(n2)
                    + (IF dot THEN DigitsValue(SubSeq(rest, 2, 1 + n2)) ELSE 0)
        neg    == signed /\ s[1] = "-"
    IN  [len |-> used, val |-> Dec(IF neg THEN -mant ELSE mant, n2)]

\* Number(s) (StringToNumber): the whole trimmed string must be a literal,
\* and the empty string is 0.
ToNumber(s) ==
    LET Literal(t, p) == IF t = <<>> THEN Int2Js(0)
                         ELSE IF p.len = Len(t) THEN p.val
                         ELSE NaN
    IN  Literal(Trim(s), DecimalPrefix(Trim(s)))

\* parseFloat(s): the longest literal at the head of the string.
ParseFloat(s) ==
    LET p == DecimalPrefix(TrimStart(s))
    IN  IF p.len = 0 THEN NaN ELSE p.val

\* ---------------------------------------------------------------- dates

\* /^\d{2}\/\d{2}\/\d{4}$/.test(s)
IsDateFormat(s) ==
    /\ Len(s) = 10
    /\ s[3] = "/" /\ s[6] = "/"
    /\ \A i \in {1, 2, 4, 5, 7, 8, 9, 10} : s[i] \in Digits

IsLeap(y) == (y % 4 = 0 /\ y % 100 # 0) \/ y % 400 = 0

\* ECMAScript DayFromYear: the day number of 1 January of year y.
DayFromYear(y) ==
    365 * (y - 1970) + ((y - 1969) \div 4) - ((y - 1901) \div 100)
        + ((y - 1601) \div 400)

\* Days of year y before its month m0 (0 = January).
DaysBeforeMonth(y, m0) ==
    LET cum == <<0, 31, 59, 90, 120, 151, 181, 212, 243, 273, 304, 334>>
    IN  cum[m0 + 1] + (IF m0 >= 2 /\ IsLeap(y) THEN 1 ELSE 0)

\* ECMAScript MakeDay(year, month, date): months and days out of range
\* carry over.
MakeDay(y, m0, d) ==
    LET ym == y + (m0 \div 12)
        mn == m0 % 12
    IN  DayFromYear(ym) + DaysBeforeMonth(ym, mn) + d - 1

\* new Date(year, monthIndex, day): a day number at local midnight, or an
\* invalid date when an argument is NaN; a year of 0..99 is 1900 + year.
NewDate(year, monthIndex, day) ==
    IF IsNaN(year) \/ IsNaN(monthIndex) \/ IsNaN(day)
    THEN [valid |-> FALSE, day |-> 0]
    ELSE LET y  == Truncate(year)
             yy == IF y >= 0 /\ y <= 99 THEN 1900 + y ELSE y
         IN  [valid |-> TRUE,
              day |-> MakeDay(yy, Truncate(monthIndex), Truncate(day))]

\* A missing element of the destructured array is undefined, and
\* Number arithmetic on undefined gives NaN.
PartNumber(parts, i) == IF i <= Len(parts) THEN ToNumber(parts[i]) ELSE NaN

JsMinusOne(x) == IF x.k = "num" THEN Dec(x.m - Pow10(x.e), x.e) ELSE x

parseDate(dateStr) ==
    LET parts == SplitSlash(dateStr)
    IN  NewDate(PartNumber(parts, 3), JsMinusOne(PartNumber(parts, 2)),
                PartNumber(parts, 1))

\* The sign of aDate - bDate, 0 standing for NaN (an invalid date).
DateSubSign(a, b) ==
    IF a.valid /\ b.valid THEN Sgn(a.day - b.day) ELSE 0

\* ------------------------------------------------------ the environment

VARIABLES
    now,                  \* the local date new Date() gives: [y, m0, d]
    utcOffset             \* the offset of the local time zone from UTC, in hours

\* new Date(now.getFullYear(), now.getMonth(), now.getDate()), as a day
\* number.
Today == MakeDay(now.y, now.m0, now.d)

\* getDay() with a plausible bug: the week starts on Monday.
GetDayFromMonday(day) == (day + 3) % 7

\* getDay(): 0 is Sunday; 1 January 1970 was a Thursday.
GetDay(day) == (day + 4) % 7

\* isDateInRange with a plausible bug: a text that is no DD/MM/YYYY is
\* outside every bucket, and nothing is thrown.
isDateInRangeSilent(dateStr, range) ==
    IF ~IsDateFormat(dateStr) THEN [threw |-> FALSE, value |-> FALSE]
    ELSE
    LET today == Today
        startOfWeek == today - GetDay(today)
        InRange(date) ==
            CASE range = "today" -> date = today
              [] range = "week" -> date >= startOfWeek /\ date <= startOfWeek + 6
              [] range = "month" ->
                    /\ date >= MakeDay(now.y, now.m0, 1)
                    /\ date <= MakeDay(now.y, now.m0 + 1, 0)
              [] range = "quarter" ->
                    /\ date >= MakeDay(now.y, (now.m0 \div 3) * 3, 1)
                    /\ date <= MakeDay(now.y, ((now.m0 \div 3) + 1) * 3, 0)
              [] range = "year" ->
                    date >= MakeDay(now.y, 0, 1) /\ date <= MakeDay(now.y, 11, 31)
              [] OTHER -> TRUE
    IN  [threw |-> FALSE, value |-> InRange(parseDate(dateStr).day)]

\* isDateInRange with a plausible bug: a range that is no bucket contains
\* no date.
isDateInRangeNoDefault(dateStr, range) ==
    IF ~IsDateFormat(dateStr) THEN [threw |-> TRUE, value |-> FALSE]
    ELSE
    LET today == Today
        startOfWeek == today - GetDay(today)
        InRange(date) ==
            CASE range = "today" -> date = today
              [] range = "week" -> date >= startOfWeek /\ date <= startOfWeek + 6
              [] range = "month" ->
                    /\ date >= MakeDay(now.y, now.m0, 1)
                    /\ date <= MakeDay(now.y, now.m0 + 1, 0)
              [] range = "quarter" ->
                    /\ date >= MakeDay(now.y, (now.m0 \div 3) * 3, 1)
                    /\ date <= MakeDay(now.y, ((now.m0 \div 3) + 1) * 3, 0)
              [] range = "year" ->
                    date >= MakeDay(now.y, 0, 1) /\ date <= MakeDay(now.y, 11, 31)
              [] OTHER -> FALSE
    IN  [threw |-> FALSE, value |-> InRange(parseDate(dateStr).day)]

\* isDateInRange(dateStr, range): threw when the text is no DD/MM/YYYY
\* (the test comes before the switch), else the value returned.
isDateInRange(dateStr, range) ==
    IF ~IsDateFormat(dateStr) THEN [threw |-> TRUE, value |-> FALSE]
    ELSE
    LET today == Today
        startOfWeek == today - GetDay(today)
        endOfWeek == startOfWeek + 6
        startOfMonth == MakeDay(now.y, now.m0, 1)
        endOfMonth == MakeDay(now.y, now.m0 + 1, 0)
        currentQuarter == now.m0 \div 3
        startOfQuarter == MakeDay(now.y, currentQuarter * 3, 1)
        endOfQuarter == MakeDay(now.y, (currentQuarter + 1) * 3, 0)
        startOfYear == MakeDay(now.y, 0, 1)
        endOfYear == MakeDay(now.y, 11, 31)
        InRange(date) ==
            CASE range = "today" -> date = today
              [] range = "week" -> date >= startOfWeek /\ date <= endOfWeek
              [] range = "month" -> date >= startOfMonth /\ date <= endOfMonth
              [] range = "quarter" -> date >= startOfQuarter /\ date <= endOfQuarter
              [] range = "year" -> date >= startOfYear /\ date <= endOfYear
              [] OTHER -> TRUE
    IN  [threw |-> FALSE, value |-> InRange(parseDate(dateStr).day)]

\* new Date(value) for the value of a date input, "YYYY-MM-DD", which is
\* read as midnight UTC, then setHours(0, 0, 0, 0), which goes back to the
\* local midnight before that instant: a day number, or an invalid date
\* for another text.
IsIsoDate(value) ==
    /\ Len(value) = 10
    /\ value[5] = "-" /\ value[8] = "-"
    /\ \A i \in {1, 2, 3, 4, 6, 7, 9, 10} : value[i] \in Digits

BoundDate(value) ==
    IF ~IsIsoDate(value) THEN [valid |-> FALSE, day |-> 0]
    ELSE LET utcDay == MakeDay(DigitsValue(SubSeq(value, 1, 4)),
                               DigitsValue(SubSeq(value, 6, 7)) - 1,
                               DigitsValue(SubSeq(value, 9, 10)))
         IN  [valid |-> TRUE,
              day |-> IF utcOffset < 0 THEN utcDay - 1 ELSE utcDay]

\* ------------------------------------------------------------ collation

\* The primary weight of a character under the 'fr' collation with
\* sensitivity 'base': case is ignored, white space and punctuation come
\* before digits, digits before letters.
PrimaryWeight(ch) ==
    CASE ch = " " -> 1 [] ch = "-" -> 2 [] ch = "," -> 3 [] ch = "." -> 4
      [] ch = "/" -> 5 [] ch \in Digits -> 6
      [] ch \in {"a", "A"} -> 7 [] ch \in {"c", "C"} -> 8

\* a.localeCompare(b, 'fr', {sensitivity: 'base', numeric: true}): the
\* strings are compared element by element, a run of digits being one
\* element compared by its value.
RECURSIVE localeCompare(_, _)
localeCompare(a, b) ==
    IF a = <<>> /\ b = <<>> THEN 0
    ELSE IF a = <<>> THEN -1
    ELSE IF b = <<>> THEN 1
    ELSE IF a[1] \in Digits /\ b[1] \in Digits
    THEN LET na == DigitRun(a)
             nb == DigitRun(b)
             va == DigitsValue(Take(a, na))
             vb == DigitsValue(Take(b, nb))
         IN  IF va # vb THEN Sgn(va - vb)
             ELSE localeCompare(Drop(a, na), Drop(b, nb))
    ELSE IF PrimaryWeight(a[1]) # PrimaryWeight(b[1])
    THEN Sgn(PrimaryWeight(a[1]) - PrimaryWeight(b[1]))
    ELSE localeCompare(Tail(a), Tail(b))

\* ------------------------------------------------------------------ DOM

\* A DOM cell is [innerHTML, attrs]: its markup (plain text here, so that
\* its textContent is its markup) and its attributes, a function from
\* attribute names to values.  A DOM row (a tr) is [tag, cells]: its
\* data-original-index attribute and its cells.  A rendered row surface
\* is a DOM row with the identity of the node, id.
NoAttrs == [n \in {} |-> ""]

HasAttr(cell, name) == name \in DOMAIN cell.attrs

\* cell.getAttribute(name): null when the attribute is absent, and
\* null || '' is ''.
GetAttributeOrEmpty(cell, name) ==
    IF HasAttr(cell, name) THEN cell.attrs[name] ELSE ""

SetAttribute(cell, name, value) ==
    [cell EXCEPT !.attrs =
        [n \in (DOMAIN cell.attrs) \cup {name} |->
            IF n = name THEN value ELSE cell.attrs[n]]]

RemoveAttribute(cell, name) ==
    [cell EXCEPT !.attrs = [n \in (DOMAIN cell.attrs) \ {name} |-> cell.attrs[n]]]

getTextContent(cell) == cell.innerHTML

getElementAttributes(cell) ==
    [n \in (DOMAIN cell.attrs) \ {"style"} |-> cell.attrs[n]]

\* The Cell Snapshot built by the constructor for one cell.
CellSnapshot(cell) ==
    [innerHTML   |-> cell.innerHTML,
     textContent |-> Trim(getTextContent(cell)),
     title       |-> GetAttributeOrEmpty(cell, "title"),
     attributes  |-> getElementAttributes(cell)]

\* The Row Record built by the constructor for the row at position index
\* (0-based) of the tbody.
RowRecord(row, index) ==
    [originalIndex |-> index,
     element       |-> [tag |-> index, cells |-> row.cells],
     cells         |-> [j \in 1..Len(row.cells) |-> CellSnapshot(row.cells[j])]]

\* rowData.cells[colIndex]?.textContent || '' (colIndex is 0-based).
CellText(rowData, colIndex) ==
    IF colIndex + 1 <= Len(rowData.cells)
    THEN rowData.cells[colIndex + 1].textContent
    ELSE <<>>

\* ----------------------------------------------------------------- sort

\* The inference with a plausible bug: every column is compared as text.
ColumnTypeAlwaysText(cache, columnIndex) == "text"

\* The column type sortRows infers: from the first row of the cache that
\* has a cell in the column.
ColumnType(cache, columnIndex) ==
    LET withCell == {i \in 1..Len(cache) : columnIndex + 1 <= Len(cache[i].cells)}
        first    == CHOOSE i \in withCell : \A k \in withCell : i <= k
        sampleValue == IF withCell = {} THEN <<>>
                       ELSE cache[first].cells[columnIndex + 1].textContent
    IN  IF sampleValue = <<>> THEN "text"
        ELSE IF IsDateFormat(sampleValue) THEN "date"
        ELSE IF ~IsNaN(ToNumber(ReplaceFirstComma(sampleValue))) THEN "number"
        ELSE "text"

Multiplier(direction) == IF direction = "asc" THEN 1 ELSE -1

\* The comparator of sortRows, as the sign Array.prototype.sort reads.
SortCompare(a, b, columnIndex, direction, columnType) ==
    LET aValue == CellText(a, columnIndex)
        bValue == CellText(b, columnIndex)
        multiplier == Multiplier(direction)
    IN  IF aValue = <<>> /\ bValue = <<>> THEN 0
        ELSE IF aValue = <<>> THEN 1 * multiplier
        ELSE IF bValue = <<>> THEN (-1) * multiplier
        ELSE CASE columnType = "date" ->
                    DateSubSign(parseDate(aValue), parseDate(bValue)) * multiplier
               [] columnType = "number" ->
                    SubSign(ParseFloat(ReplaceFirstComma(aValue)),
                            ParseFloat(ReplaceFirstComma(bValue))) * multiplier
               [] OTHER -> localeCompare(aValue, bValue) * multiplier

\* The comparator of the third header activation and of destroy().
IndexCompare(a, b) == Sgn(a.originalIndex - b.originalIndex)

\* All the orders of the elements of a sequence.
AllOrders(seq) ==
    LET n == Len(seq)
        perms == {p \in [1..n -> 1..n] : \A i, j \in 1..n : i # j => p[i] # p[j]}
    IN  {[i \in 1..n |-> seq[p[i]]] : p \in perms}

\* Array.prototype.sort is stable: the result of sorting with the
\* comparator given as the matrix c of its signs, c[i][j] for the elements
\* at positions i and j, is the order of the positions in which i comes
\* before j when c[i][j] < 0, or c[i][j] = 0 and i < j.
RECURSIVE InsertPos(_, _, _)
InsertPos(sorted, i, c) ==
    IF sorted = <<>> THEN <<i>>
    ELSE LET last == sorted[Len(sorted)]
         IN  IF c[last][i] <= 0 THEN Append(sorted, i)
             ELSE Append(InsertPos(Take(sorted, Len(sorted) - 1), i, c), last)

RECURSIVE StableOrder(_, _)
StableOrder(n, c) ==
    IF n = 0 THEN <<>> ELSE InsertPos(StableOrder(n - 1, c), n, c)

\* ECMAScript "consistent comparator": a = a, the sign of (b, a) is the
\* opposite of the sign of (a, b), and = and < are transitive.
ConsistentComparator(n, c) ==
    /\ \A i \in 1..n : c[i][i] = 0
    /\ \A i, j \in 1..n : c[j][i] = -c[i][j]
    /\ \A i, j, k \in 1..n :
          /\ (c[i][j] = 0 /\ c[j][k] = 0) => c[i][k] = 0
          /\ (c[i][j] < 0 /\ c[j][k] < 0) => c[i][k] < 0
          /\ (c[i][j] < 0 /\ c[j][k] = 0) => c[i][k] < 0
          /\ (c[i][j] = 0 /\ c[j][k] < 0) => c[i][k] < 0

\* The orders Array.prototype.sort may leave: the stable sorted order
\* when the comparator is consistent, and an implementation-defined order
\* of the same elements when it is not.
SortOutcomes(seq, c) ==
    IF ConsistentComparator(Len(seq), c)
    THEN LET order == StableOrder(Len(seq), c)
         IN  {[i \in 1..Len(seq) |-> seq[order[i]]]}
    ELSE AllOrders(seq)

\* The signs of the comparator of sortRows over the positions of the
\* cache, as a matrix: the sign of each pair is computed once.
SignMatrix(cache, columnIndex, direction, columnType) ==
    LET n == Len(cache)
        sign(i, j) == SortCompare(cache[i], cache[j], columnIndex, direction, columnType)
        RECURSIVE row(_, _)
        row(i, j) == IF j = 0 THEN <<>> ELSE Append(row(i, j - 1), sign(i, j))
        RECURSIVE rows(_)
        rows(i) == IF i = 0 THEN <<>> ELSE Append(rows(i - 1), row(i, n))
    IN  rows(n)

\* sortRows with a plausible bug: the rows with an empty sort key are not
\* put back after the sort.
sortRowsDropsEmptyKeys(cache, columnIndex, direction) ==
    LET columnType == ColumnType(cache, columnIndex)
        RECURSIVE keyed(_)
        keyed(seq) ==
            IF seq = <<>> THEN <<>>
            ELSE (IF CellText(seq[1], columnIndex) # <<>> THEN <<seq[1]>> ELSE <<>>)
                    \o keyed(Tail(seq))
    IN  {keyed(out) : out \in SortOutcomes(cache,
                SignMatrix(cache, columnIndex, direction, columnType))}

\* sortRows(columnIndex, direction): the orders it may leave the cache in.
sortRows(cache, columnIndex, direction) ==
    LET columnType == ColumnType(cache, columnIndex)
    IN  SortOutcomes(cache, SignMatrix(cache, columnIndex, direction, columnType))

\* The third activation with a plausible bug: the order is not restored.
SortByOriginalIndexSkipped(cache) == {cache}

\* rowsCache.sort((a, b) => a.originalIndex - b.originalIndex)
SortByOriginalIndex(cache) ==
    LET signs == [i \in 1..Len(cache) |->
                     [j \in 1..Len(cache) |-> IndexCompare(cache[i], cache[j])]]
    IN  SortOutcomes(cache, signs)

\* ------------------------------------------------- arithmetic of the cycle

\* Math.ceil(length / displayLimit), for a length >= 0 and a limit that is
\* a positive integer or Infinity (length / Infinity is 0).
CeilDiv(length, limit) ==
    IF limit.k = "inf" THEN 0
    ELSE (length + limit.m - 1) \div limit.m

\* displayLimit * i for an integer i >= 0: Infinity * 0 is NaN.
TimesInt(limit, i) ==
    IF limit.k = "inf" THEN (IF i = 0 THEN NaN ELSE Infinity)
    ELSE Int2Js(limit.m * i)

\* The minimum with a plausible bug: the last row is left out.
MinWithIntOffByOne(x, length) ==
    IF x.k = "inf" THEN length - 1
    ELSE IF x.m < length - 1 THEN x.m ELSE length - 1

\* Math.min(x, length) for an x that is an integer or Infinity.
MinWithInt(x, length) ==
    IF x.k = "inf" THEN length ELSE IF x.m < length THEN x.m ELSE length

\* parseInt(value): the digits at the head of the string.
ParseInt(value) ==
    LET t == TrimStart(value)
    IN  IF DigitRun(t) = 0 THEN NaN ELSE Int2Js(DigitsValue(Take(t, DigitRun(t))))

AllOption == <<"a", "l", "l">>

\* The change listener of the display-limit select.
DisplayLimitOf(value) == IF value = AllOption THEN Infinity ELSE ParseInt(value)

\* ------------------------------------------------------------- filtering

\* The keys of a filter object whose value is active.
ActiveKeys(filters) == {c \in DOMAIN filters : filters[c] # <<>>}

\* The value filters with a plausible bug: an empty filter value is not
\* skipped.
PassesValueFiltersEmptyActive(rowData, valueFilters) ==
    \A colIndex \in DOMAIN valueFilters :
        CellText(rowData, colIndex) = valueFilters[colIndex]

\* The third loop of the predicate of applyFilters: the value filters.
PassesValueFilters(rowData, valueFilters) ==
    \A colIndex \in ActiveKeys(valueFilters) :
        CellText(rowData, colIndex) = valueFilters[colIndex]

\* The first loop of the predicate: the date filters, in the order of
\* their keys.  "throw" when isDateInRange throws, "false" when a filter
\* fails, "pass" at the end of the loop.
RECURSIVE DateFiltersOutcome(_, _, _)
DateFiltersOutcome(rowData, dateFilters, keys) ==
    IF keys = {} THEN "pass"
    ELSE LET colIndex == CHOOSE c \in keys : \A k \in keys : c <= k
             After(filterVal, inRange, others) ==
                IF filterVal = "" THEN others
                ELSE IF inRange.threw THEN "throw"
                ELSE IF ~inRange.value THEN "false"
                ELSE others
         IN  After(dateFilters[colIndex],
                   isDateInRange(CellText(rowData, colIndex), dateFilters[colIndex]),
                   DateFiltersOutcome(rowData, dateFilters, keys \ {colIndex}))

\* The date ranges with a plausible bug: the cell text is parsed without
\* the test of its format.
PassesDateRangeNoFormatTest(rowData, colIndex, range) ==
    IF range.from = <<>> /\ range.to = <<>> THEN TRUE
    ELSE LET Within(cellDate, fromDate, toDate) ==
                /\ ~(/\ range.from # <<>>
                     /\ cellDate.valid /\ fromDate.valid
                     /\ cellDate.day < fromDate.day)
                /\ ~(/\ range.to # <<>>
                     /\ cellDate.valid /\ toDate.valid
                     /\ cellDate.day > toDate.day)
         IN  Within(parseDate(CellText(rowData, colIndex)),
                    BoundDate(range.from), BoundDate(range.to))

\* The second loop of the predicate: the date ranges.  A comparison with
\* an invalid date is false.
PassesDateRange(rowData, colIndex, range) ==
    IF range.from = <<>> /\ range.to = <<>> THEN TRUE
    ELSE LET Within(cellVal, cellDate, fromDate, toDate) ==
                /\ IsDateFormat(cellVal)
                /\ ~(/\ range.from # <<>>
                     /\ cellDate.valid /\ fromDate.valid
                     /\ cellDate.day < fromDate.day)
                /\ ~(/\ range.to # <<>>
                     /\ cellDate.valid /\ toDate.valid
                     /\ cellDate.day > toDate.day)
         IN  Within(CellText(rowData, colIndex),
                    parseDate(CellText(rowData, colIndex)),
                    BoundDate(range.from), BoundDate(range.to))

PassesDateRangeFilters(rowData, rangeFilters) ==
    \A colIndex \in DOMAIN rangeFilters :
        PassesDateRange(rowData, colIndex, rangeFilters[colIndex])

\* The predicate of applyFilters for one row.
RowOutcome(rowData, E) ==
    LET Then(dates) ==
            IF dates # "pass" THEN dates
            ELSE IF /\ PassesDateRangeFilters(rowData, E.currentDateRangeFilters)
                    /\ PassesValueFilters(rowData, E.currentValueFilters)
            THEN "pass" ELSE "false"
    IN  Then(DateFiltersOutcome(rowData, E.currentDateFilters,
                                DOMAIN E.currentDateFilters))

RECURSIVE FilterSeq(_, _)
FilterSeq(seq, E) ==
    IF seq = <<>> THEN <<>>
    ELSE (IF RowOutcome(seq[1], E) = "pass" THEN <<seq[1]>> ELSE <<>>)
            \o FilterSeq(Tail(seq), E)

\* applyFilters() with a plausible bug: the filtered rows are emptied
\* before the rows of the cache are tested.
applyFiltersClearsFirst(E) ==
    IF \E i \in 1..Len(E.rowsCache) : RowOutcome(E.rowsCache[i], E) = "throw"
    THEN [E EXCEPT !.filteredRows = <<>>, !.threw = TRUE]
    ELSE [E EXCEPT !.filteredRows = FilterSeq(E.rowsCache, E), !.threw = FALSE]

\* applyFilters(): the filtered rows are assigned when the filter of the
\* cache returns; an error thrown for a row leaves them as they were.
applyFilters(E) ==
    IF \E i \in 1..Len(E.rowsCache) : RowOutcome(E.rowsCache[i], E) = "throw"
    THEN [E EXCEPT !.threw = TRUE]
    ELSE [E EXCEPT !.filteredRows = FilterSeq(E.rowsCache, E), !.threw = FALSE]

\* ------------------------------------------------------------- pagination

\* The buttons with a plausible bug: the window of pages is left out.
PageButtonsJumpsOnly(currentPageIndex, totalPages) ==
    <<[text |-> "<<", pageIndex |-> 1, disabled |-> currentPageIndex <= 2,
       active |-> FALSE],
      [text |-> ">>", pageIndex |-> totalPages,
       disabled |-> currentPageIndex + 2 > totalPages, active |-> FALSE]>>

\* The buttons updatePagination() leaves in the pagination element: the
\* first jump, the pages of the window that exist, the last jump.  A
\* disabled button has no click listener.
PageButtons(currentPageIndex, totalPages) ==
    LET prevDisabled == currentPageIndex <= 2
        nextDisabled == currentPageIndex + 2 > totalPages
        window == [i \in 1..3 |-> currentPageIndex + i - 2]
        page(i) == IF window[i] <= 0 \/ window[i] > totalPages THEN <<>>
                   ELSE <<[text |-> "page", pageIndex |-> window[i],
                           disabled |-> FALSE,
                           active |-> (window[i] = currentPageIndex)]>>
    IN  <<[text |-> "<<", pageIndex |-> 1, disabled |-> prevDisabled,
           active |-> FALSE]>>
        \o page(1) \o page(2) \o page(3)
        \o <<[text |-> ">>", pageIndex |-> totalPages, disabled |-> nextDisabled,
              active |-> FALSE]>>

\* updatePagination(): nothing without a pagination element.
updatePagination(E) ==
    IF ~E.hasControls THEN E
    ELSE [E EXCEPT !.pagination =
            PageButtons(E.currentPageIndex,
                        CeilDiv(Len(E.filteredRows), E.displayLimit))]

\* ------------------------------------------------------------ the row pool

\* A pooled surface patched for rowData: for each cell of the record that
\* the surface has, the markup, the title and the attributes of the
\* snapshot; the other attributes of the surface stay.
RECURSIVE SetAttributes(_, _)
SetAttributes(cell, attributes) ==
    IF DOMAIN attributes = {} THEN cell
    ELSE LET name == CHOOSE n \in DOMAIN attributes : TRUE
         IN  SetAttributes(
                SetAttribute(cell, name, attributes[name]),
                [n \in (DOMAIN attributes) \ {name} |-> attributes[n]])

\* The patch with a plausible bug: the attributes of the cell are replaced
\* by those of the snapshot.
PatchCellReplacesAttributes(cell, snapshot) ==
    [innerHTML |-> snapshot.innerHTML, attrs |-> snapshot.attributes]

PatchCell(cell, snapshot) ==
    LET withHtml  == [cell EXCEPT !.innerHTML = snapshot.innerHTML]
        withTitle == IF snapshot.title # ""
                     THEN SetAttribute(withHtml, "title", snapshot.title)
                     ELSE RemoveAttribute(withHtml, "title")
    IN  SetAttributes(withTitle, snapshot.attributes)

PatchRow(tr, rowData) ==
    [tr EXCEPT !.cells =
        [j \in 1..Len(tr.cells) |->
            IF j <= Len(rowData.cells) THEN PatchCell(tr.cells[j], rowData.cells[j])
            ELSE tr.cells[j]]]

\* rowData.element.cloneNode(true): a new node, the id-th allocated.
CloneElement(rowData, id) ==
    [id |-> id, tag |-> rowData.element.tag, cells |-> rowData.element.cells]

\* The loop turn with a plausible bug: the pool is never used.
AcquireSurfaceAlwaysClones(R, rowData) ==
    [rowPool   |-> R.rowPool,
     allocated |-> R.allocated + 1,
     tbody     |-> Append(R.tbody,
                     [CloneElement(rowData, R.allocated + 1)
                        EXCEPT !.tag = rowData.originalIndex])]

\* One turn of the loop of updateTable over the slice: the surface for
\* rowData comes from the pool when the pool is not empty.
AcquireSurface(R, rowData) ==
    LET tr == IF R.rowPool # <<>>
              THEN PatchRow(R.rowPool[Len(R.rowPool)], rowData)
              ELSE CloneElement(rowData, R.allocated + 1)
    IN  [rowPool   |-> IF R.rowPool # <<>>
                       THEN Take(R.rowPool, Len(R.rowPool) - 1) ELSE <<>>,
         allocated |-> IF R.rowPool # <<>> THEN R.allocated ELSE R.allocated + 1,
         tbody     |-> Append(R.tbody, [tr EXCEPT !.tag = rowData.originalIndex])]

RECURSIVE RenderSlice(_, _)
RenderSlice(R, slice) ==
    IF slice = <<>> THEN R
    ELSE RenderSlice(AcquireSurface(R, slice[1]), Tail(slice))

\* The while loop with a plausible bug: the surfaces are pushed on the
\* pool and left in the tbody.
ReleaseDisplayedNotDetached(rowPool_, tbody_) ==
    [rowPool |-> rowPool_ \o tbody_, tbody |-> tbody_]

\* The while loop of updateTable: each displayed surface, first to last,
\* is pushed on the pool and removed from the tbody.
ReleaseDisplayed(rowPool_, tbody_) ==
    [rowPool |-> rowPool_ \o tbody_, tbody |-> <<>>]

\* The displayed surfaces go to the pool, then the slice
\* [minIndex, maxIndex) of the filtered rows is rendered.  A NaN minIndex
\* fails the loop test at once.
Reconcile(E, minIndex, maxIndex) ==
    LET released == ReleaseDisplayed(E.rowPool, E.tbody)
        start == [rowPool |-> released.rowPool, tbody |-> released.tbody,
                  allocated |-> E.allocated]
        slice == IF minIndex.k # "num" THEN <<>>
                 ELSE SubSeq(E.filteredRows, minIndex.m + 1, maxIndex)
        R == RenderSlice(start, slice)
    IN  [E EXCEPT !.rowPool = R.rowPool, !.tbody = R.tbody,
                  !.allocated = R.allocated,
                  !.maxShown = IF Len(R.tbody) > E.maxShown
                               THEN Len(R.tbody) ELSE E.maxShown]

\* ----------------------------------------------------------- update cycle

\* The null of currentSort.column (columns are numbered from 0) and of
\* currentSort.direction.
NoColumn == 0 - 1
NoDirection == "null"

SortActive(E) ==
    E.currentSort.column # NoColumn /\ E.currentSort.direction # NoDirection

\* The caches the first step of updateTable() may leave.
SortStep(E) ==
    IF SortActive(E)
    THEN {[E EXCEPT !.rowsCache = c] :
            c \in sortRows(E.rowsCache, E.currentSort.column, E.currentSort.direction)}
    ELSE {E}

\* The clamp with a plausible bug: the page is never reset.
ClampPageSkipped(E) == E

\* The test of updateTable() after applyFilters(): a page beyond the last
\* one goes back to 1.
ClampPage(E) ==
    IF E.currentPageIndex > CeilDiv(Len(E.filteredRows), E.displayLimit)
    THEN [E EXCEPT !.currentPageIndex = 1]
    ELSE E

\* updateTable() after its sort: filter, clamp, slice, reconcile, summary,
\* pagination.
RenderStep(E0) ==
    LET Summary(E2, minIndex, maxIndex) ==
            updatePagination(
                [E2 EXCEPT !.tableInfo =
                    [showing |-> IF minIndex.k = "num"
                                 THEN Int2Js(maxIndex - minIndex.m) ELSE NaN,
                     filteredTotal |-> Len(E2.filteredRows),
                     total |-> Len(E2.rowsCache)]])
        Slice(E1, minIndex, maxIndex) ==
            Summary(Reconcile(E1, minIndex, maxIndex), minIndex, maxIndex)
        Page(E1) ==
            Slice(E1,
                  TimesInt(E1.displayLimit, E1.currentPageIndex - 1),
                  MinWithInt(TimesInt(E1.displayLimit, E1.currentPageIndex),
                             Len(E1.filteredRows)))
    IN  Page(ClampPage(applyFilters(E0)))

\* updateTable(): the states one update cycle may end in.  An error thrown
\* by applyFilters() ends the cycle there, after the sort.
updateTable(E) ==
    LET Cycle(S, filtered) == IF filtered.threw THEN filtered ELSE RenderStep(S)
    IN  {Cycle(S, applyFilters(S)) : S \in SortStep(E)}

\* ------------------------------------------------------------ handleSort

\* The sort buttons are the buttons of the header cells 1, 2, ...: the
\* button of column columnIndex is the (columnIndex - 1)-th of them.
HasButton(E, columnIndex) == columnIndex \in DOMAIN E.sortButtons

\* The tri-state with plausible bugs: a third activation that keeps the
\* descending sort, and one that goes back to ascending.
NextDirectionNeverCleared(currentSort, columnIndex) ==
    IF currentSort.column = columnIndex /\ currentSort.direction \in {"asc", "desc"}
    THEN "desc" ELSE "asc"

NextDirectionTwoStates(currentSort, columnIndex) ==
    IF currentSort.column = columnIndex /\ currentSort.direction = "asc"
    THEN "desc" ELSE "asc"

\* The tri-state of a header activation.
NextDirection(currentSort, columnIndex) ==
    IF currentSort.column = columnIndex
    THEN IF currentSort.direction = "asc" THEN "desc"
         ELSE IF currentSort.direction = "desc" THEN NoDirection
         ELSE "asc"
    ELSE "asc"

NextSort(currentSort, columnIndex) ==
    LET direction == NextDirection(currentSort, columnIndex)
    IN  [column |-> IF direction # NoDirection THEN columnIndex ELSE NoColumn,
         direction |-> direction]

\* The indicators with a plausible bug: the other buttons keep theirs.
NextButtonsOthersKept(sortButtons_, columnIndex, direction) ==
    [b \in DOMAIN sortButtons_ |->
        IF b = columnIndex
        THEN (IF direction # NoDirection THEN direction ELSE "")
        ELSE sortButtons_[b]]

\* The classes of the sort buttons after an activation of columnIndex:
\* asc and desc are removed from the others, and the button of the column
\* shows the new direction.
NextButtons(sortButtons_, columnIndex, direction) ==
    [b \in DOMAIN sortButtons_ |->
        IF b = columnIndex
        THEN (IF direction # NoDirection THEN direction ELSE "")
        ELSE ""]

\* The states handleSort(columnIndex) may end in, through both of its
\* paths (with and without a sort button for the column).
handleSort(E, columnIndex) ==
    LET sort == NextSort(E.currentSort, columnIndex)
        E1 == [E EXCEPT !.currentSort = sort,
                        !.sortButtons =
                            IF HasButton(E, columnIndex)
                            THEN NextButtons(E.sortButtons, columnIndex, sort.direction)
                            ELSE E.sortButtons]
        restored == IF sort.direction = NoDirection
                    THEN {[E1 EXCEPT !.rowsCache = c] :
                            c \in SortByOriginalIndex(E1.rowsCache)}
                    ELSE {E1}
    IN  UNION {updateTable(S) : S \in restored}

\* ----------------------------------------------------------- constructor

\* The last row of the header, as in the fixtures of the tests: an
\* identifier column, then two columns marked "filtered".
HeaderCells ==
    <<[filtered |-> FALSE, dateRange |-> FALSE],
      [filtered |-> TRUE, dateRange |-> FALSE],
      [filtered |-> TRUE, dateRange |-> FALSE]>>

HeaderCols == Len(HeaderCells)

\* initColumnsFilters() gives a sort button to every header cell but the
\* first.
SortableColumns == 1..(HeaderCols - 1)

DefaultDisplayLimit == 25

\* The column the constructor sorts by, descending: the first column from
\* the third on in which a cached row holds a DD/MM/YYYY text; NoColumn
\* when there is none.
DefaultSortColumn(cache) ==
    LET dated == {colIndex \in 2..(HeaderCols - 1) :
                    \E i \in 1..Len(cache) :
                        LET cellVal == Trim(CellText(cache[i], colIndex))
                        IN  cellVal # <<>> /\ IsDateFormat(cellVal)}
    IN  IF dated = {} THEN NoColumn
        ELSE CHOOSE c \in dated : \A d \in dated : c <= d

\* new LiteTableManager(container) over the rows of the tbody: the engines
\* it may build.  hasControls is false in a test environment, where no
\* control is created.
Constructor(rows, hasControls) ==
    LET cache == [i \in 1..Len(rows) |-> RowRecord(rows[i], i - 1)]
        col   == DefaultSortColumn(cache)
        E0 == [allRows |-> [i \in 1..Len(rows) |-> [tag |-> i - 1, cells |-> rows[i].cells]],
               hasControls |-> hasControls,
               displayLimit |-> Int2Js(DefaultDisplayLimit),
               currentPageIndex |-> 1,
               currentDateFilters |-> <<>>,
               currentValueFilters |-> <<>>,
               currentDateRangeFilters |-> <<>>,
               threw |-> FALSE,
               currentSort |-> IF col = NoColumn
                               THEN [column |-> NoColumn, direction |-> NoDirection]
                               ELSE [column |-> col, direction |-> "desc"],
               rowsCache |-> cache,
               filteredRows |-> cache,
               rowPool |-> <<>>,
               tbody |-> <<>>,
               allocated |-> 0,
               maxShown |-> 0,
               sortButtons |-> IF hasControls
                               THEN [b \in SortableColumns |->
                                        IF b = col THEN "desc" ELSE ""]
                               ELSE <<>>,
               pagination |-> IF hasControls
                              THEN PageButtons(1, CeilDiv(Len(cache), Int2Js(DefaultDisplayLimit)))
                              ELSE <<>>,
               tableInfo |-> [showing |-> Int2Js(0), filteredTotal |-> 0, total |-> 0]]
    IN  updateTable(E0)

\* ------------------------------------------------------------- lifecycle

\* The own keys of an engine object the constructor has filled.
EngineKeys ==
    {"container", "table", "tbody", "displayLimit", "currentPageIndex",
     "allRows", "currentDateFilters", "currentValueFilters",
     "currentDateRangeFilters", "currentSort", "columnCount", "rowsCache",
     "filteredRows", "rowPool"}

\* The keys destroy() leaves on a live engine: it deletes every key, then
\* assigns rowPool and rowsCache.
DestroyedKeys == {"rowPool", "rowsCache"}

\* No engine: the value of _tableManager on a container that has none, and
\* the number of the engine before the first construction.
NoManager == 0

\* A container as its author wrote it: with or without a table, with or
\* without a .displayLimit select of its own; bound to no engine, and
\* holding no pagination element, no display-limit wrapper, no filter
\* control, and no sort button in its header cells.
SourceContainer(table, ownSelect) ==
    [table |-> table, ownSelect |-> ownSelect, manager |-> NoManager,
     pagination |-> 0, displayLimit |-> 0, filter |-> 0, sortButton |-> 0]

\* The header cells initGlobalFiltersButtons() gives a filter control.
FilterControls ==
    Cardinality({c \in 1..HeaderCols :
                    HeaderCells[c].dateRange \/ HeaderCells[c].filtered})

\* The four init calls of the constructor, made outside a test environment:
\* a control per filtered header cell, a button around the content of each
\* header cell but the first, a display-limit wrapper unless the container
\* holds a .displayLimit select, a pagination element in the footer.
InitControls(C) ==
    [C EXCEPT !.filter = @ + FilterControls,
              !.sortButton = @ + 1,
              !.displayLimit = IF C.ownSelect \/ @ > 0 THEN @ ELSE @ + 1,
              !.pagination = @ + 1]

\* destroy() with a plausible bug: the filter controls stay.
RemoveControlsKeepsFilters(C) ==
    [C EXCEPT !.pagination = IF @ > 0 THEN @ - 1 ELSE 0,
              !.displayLimit = IF @ > 0 THEN @ - 1 ELSE 0,
              !.sortButton = IF @ > 0 THEN @ - 1 ELSE 0]

\* destroy() on the container: the first pagination element and the first
\* display-limit wrapper are removed, each header cell gets the content of
\* its first sort button in place of the button, every filter control is
\* removed.
RemoveControls(C) ==
    [C EXCEPT !.pagination = IF @ > 0 THEN @ - 1 ELSE 0,
              !.displayLimit = IF @ > 0 THEN @ - 1 ELSE 0,
              !.sortButton = IF @ > 0 THEN @ - 1 ELSE 0,
              !.filter = 0]

\* An engine object whose keys are deleted: each field holds a blank, and
\* keys tells which fields the object has.  The tbody and the summary
\* belong to the container and stay.
Deleted(E) ==
    [E EXCEPT !.allRows = <<>>,
              !.displayLimit = Int2Js(0),
              !.currentPageIndex = 0,
              !.currentDateFilters = <<>>,
              !.currentValueFilters = <<>>,
              !.currentDateRangeFilters = <<>>,
              !.threw = FALSE,
              !.currentSort = [column |-> NoColumn, direction |-> NoDirection],
              !.rowsCache = <<>>,
              !.filteredRows = <<>>,
              !.rowPool = <<>>,
              !.allocated = 0,
              !.maxShown = 0]

\* What is kept of an engine once another one is constructed: its keys,
\* its pool and its cache.
Remains(W) ==
    [keys |-> W.keys, rowPool |-> W.engine.rowPool, rowsCache |-> W.engine.rowsCache]

\* destroy() of the latest engine, in the world W: the engine, its keys,
\* the container, the number of the engine, the engines before it, the
\* error of the last construction.  An engine without its container key has
\* been destroyed: its keys are deleted and nothing else is done.  The
\* rows of allRows are sorted and made visible, and stay detached.
destroy(W) ==
    IF "container" \notin W.keys
    THEN [W EXCEPT !.engine = Deleted(W.engine), !.keys = {}]
    ELSE [W EXCEPT !.engine = [Deleted(W.engine) EXCEPT
                                  !.sortButtons = <<>>,
                                  !.pagination = <<>>],
                   !.keys = DestroyedKeys,
                   !.container = [RemoveControls(W.container) EXCEPT
                                     !.manager = NoManager]]

\* destroy() of an earlier engine with a plausible bug: the test of line
\* 640 is missing and the controls of the container are removed again.
destroyEarlierRemovesControls(W, i) ==
    [W EXCEPT !.earlier[i] = [keys |-> DestroyedKeys, rowPool |-> <<>>,
                              rowsCache |-> <<>>],
              !.container = [RemoveControls(W.container) EXCEPT
                                !.manager = NoManager]]

\* destroy() of the i-th engine, which is not the latest: it has been
\* destroyed when the next one was constructed.
destroyEarlier(W, i) ==
    [W EXCEPT !.earlier[i] = [keys |-> {}, rowPool |-> <<>>, rowsCache |-> <<>>]]

\* Lines 108-109 with a plausible bug: the engine bound to the container
\* is not destroyed.
DestroyBoundSkipped(W) == W

\* Lines 108-109 of the constructor: the engine bound to the container is
\* destroyed.
DestroyBound(W) ==
    IF W.container.manager = NoManager THEN W
    ELSE IF W.container.manager = W.self THEN destroy(W)
    ELSE destroyEarlier(W, W.container.manager)

\* Line 111 with a plausible bug: a container without a table is taken.
TableFoundAlways(C) == TRUE

\* tableContainer.querySelector('table') of line 111.
TableFound(C) == C.table

ContainerRequired == "Table container is required"
NoTableFound == "No table found in container"

\* The rows the constructor finds in the tbody.
RowsOf(tbody_) == [i \in 1..Len(tbody_) |-> [cells |-> tbody_[i].cells]]

\* new LiteTableManager(tableContainer) in the world W, tableContainer
\* being null or the container: the worlds it may leave.  The engine
\* bound to the container is destroyed before the table is looked for; the
\* new engine reads its rows in the tbody and is bound last.
new(W, tableContainer) ==
    LET Build(D) ==
            {[engine |-> E,
              keys |-> EngineKeys,
              container |-> [(IF E.hasControls THEN InitControls(D.container)
                              ELSE D.container)
                                EXCEPT !.manager = D.self + 1],
              self |-> D.self + 1,
              earlier |-> IF D.self = NoManager THEN D.earlier
                          ELSE Append(D.earlier, Remains(D)),
              error |-> ""] :
                E \in Constructor(RowsOf(D.engine.tbody), D.engine.hasControls)}
        Over(D) ==
            IF ~TableFound(D.container)
            THEN {[D EXCEPT !.error = NoTableFound]}
            ELSE Build(D)
    IN  IF tableContainer = "null"
        THEN {[W EXCEPT !.error = ContainerRequired]}
        ELSE Over(DestroyBound(W))

\* ---------------------------------------------------------------- inputs

Date1 == <<"1", "0", "/", "0", "2", "/", "2", "0", "2", "5">>
Date2 == <<"0", "5", "/", "0", "3", "/", "2", "0", "2", "5">>

Cell(html, attrs) == [innerHTML |-> html, attrs |-> attrs]
PlainCell(html) == Cell(html, NoAttrs)
ClassX == [n \in {"class"} |-> "x"]
TitleT == [n \in {"title"} |-> "t"]

\* The rows a source table is made of: dates and texts in the third
\* column, texts that differ by case only and an empty text in the second,
\* cells with and without attributes, and a row that lacks the third cell.
RowKinds ==
    {[cells |-> <<PlainCell(<<"7">>), PlainCell(<<"c">>), PlainCell(Date1)>>],
     [cells |-> <<PlainCell(<<"7">>), Cell(<<"A">>, ClassX), PlainCell(Date2)>>],
     [cells |-> <<PlainCell(<<"7">>), PlainCell(<<>>), PlainCell(<<"c">>)>>],
     [cells |-> <<PlainCell(<<"7">>), Cell(<<" ", "a">>, TitleT)>>]}

RECURSIVE TablesOfLen(_)
TablesOfLen(n) ==
    IF n = 0 THEN {<<>>}
    ELSE {Append(t, r) : t \in TablesOfLen(n - 1), r \in RowKinds}

Tables == UNION {TablesOfLen(n) : n \in 0..MaxRows}

\* A current date: Wednesday 12 March 2025.
Now0 == [y |-> 2025, m0 |-> 2, d |-> 12]

\* The option values of the display-limit select of the container.
DisplayLimitOptions == {<<"1">>, <<"2">>, AllOption}

\* The columns that get a dropdown of values (initGlobalFiltersButtons): a
\* "filtered" header whose first non-empty cell is no date.
ValueFilterColumns(rows) ==
    {colIndex \in 0..(HeaderCols - 1) :
        /\ HeaderCells[colIndex + 1].filtered
        /\ ~HeaderCells[colIndex + 1].dateRange
        /\ LET nonEmpty == {i \in 1..Len(rows) :
                              /\ colIndex + 1 <= Len(rows[i].cells)
                              /\ Trim(getTextContent(rows[i].cells[colIndex + 1])) # <<>>}
               first == CHOOSE i \in nonEmpty : \A k \in nonEmpty : i <= k
           IN  nonEmpty = {} \/
               ~IsDateFormat(Trim(getTextContent(rows[first].cells[colIndex + 1])))}

\* The options of the dropdown of a column (createValueDropdown): 'All',
\* whose value is empty, and the distinct non-empty texts of the column.
ValueOptions(rows, colIndex) ==
    {<<>>} \cup
    {Trim(getTextContent(rows[i].cells[colIndex + 1])) :
        i \in {k \in 1..Len(rows) : colIndex + 1 <= Len(rows[k].cells)}}

\* ----------------------------------------------------------------- state

VARIABLES
    allRows,              \* the rows of the source table, detached
    hasControls,          \* the controls were created (no test environment)
    displayLimit,
    currentPageIndex,
    currentDateFilters,
    currentValueFilters,
    currentDateRangeFilters,
    threw,                \* the last call ended by an error thrown
    probe,                \* a direct call of isDateInRange and its outcome
    currentSort,
    rowsCache,
    filteredRows,
    rowPool,
    tbody,                \* the children of the tbody: the display surface
    allocated,            \* the number of row surfaces cloned so far
    maxShown,             \* the largest number of rows one cycle displayed
    sortButtons,          \* the asc / desc class of each sort button
    pagination,           \* the buttons of the pagination element
    tableInfo,            \* the counts of the summary text
    container,            \* the container: its table, its binding, its controls
    self,                 \* the number of the latest engine constructed
    keys,                 \* the own keys of the latest engine
    earlier,              \* what remains of the engines constructed before
    error                 \* the message of the error the last construction threw

vars == <<now, utcOffset, probe, allRows, hasControls, displayLimit, currentPageIndex,
          currentDateFilters, currentValueFilters, currentDateRangeFilters,
          threw, currentSort, rowsCache, filteredRows, rowPool,
          tbody, allocated, maxShown, sortButtons, pagination, tableInfo,
          container, self, keys, earlier, error>>

\* The engine as one record, for the operators above.
This ==
    [allRows |-> allRows, hasControls |-> hasControls,
     displayLimit |-> displayLimit, currentPageIndex |-> currentPageIndex,
     currentDateFilters |-> currentDateFilters,
     currentValueFilters |-> currentValueFilters,
     currentDateRangeFilters |-> currentDateRangeFilters,
     threw |-> threw, currentSort |-> currentSort,
     rowsCache |-> rowsCache, filteredRows |-> filteredRows,
     rowPool |-> rowPool, tbody |-> tbody, allocated |-> allocated,
     maxShown |-> maxShown,
     sortButtons |-> sortButtons, pagination |-> pagination,
     tableInfo |-> tableInfo]

\* The fields of the latest engine become those of E.
Assigns(E) ==
    /\ UNCHANGED <<now, utcOffset, probe>>
    /\ allRows' = E.allRows
    /\ hasControls' = E.hasControls
    /\ displayLimit' = E.displayLimit
    /\ currentPageIndex' = E.currentPageIndex
    /\ currentDateFilters' = E.currentDateFilters
    /\ currentValueFilters' = E.currentValueFilters
    /\ currentDateRangeFilters' = E.currentDateRangeFilters
    /\ threw' = E.threw
    /\ currentSort' = E.currentSort
    /\ rowsCache' = E.rowsCache
    /\ filteredRows' = E.filteredRows
    /\ rowPool' = E.rowPool
    /\ tbody' = E.tbody
    /\ allocated' = E.allocated
    /\ maxShown' = E.maxShown
    /\ sortButtons' = E.sortButtons
    /\ pagination' = E.pagination
    /\ tableInfo' = E.tableInfo

\* A call on the latest engine that leaves it as E.
Becomes(E) ==
    /\ Assigns(E)
    /\ UNCHANGED <<container, self, keys, earlier, error>>

\* The state is the engine E, the first one constructed over a container
\* that has a .displayLimit select of its own.
Starts(E) ==
    /\ self = 1
    /\ keys = EngineKeys
    /\ earlier = <<>>
    /\ error = ""
    /\ container = [(IF E.hasControls
                     THEN InitControls(SourceContainer(TRUE, TRUE))
                     ELSE SourceContainer(TRUE, TRUE)) EXCEPT !.manager = 1]
    /\ allRows = E.allRows
    /\ hasControls = E.hasControls
    /\ displayLimit = E.displayLimit
    /\ currentPageIndex = E.currentPageIndex
    /\ currentDateFilters = E.currentDateFilters
    /\ currentValueFilters = E.currentValueFilters
    /\ currentDateRangeFilters = E.currentDateRangeFilters
    /\ threw = E.threw
    /\ currentSort = E.currentSort
    /\ rowsCache = E.rowsCache
    /\ filteredRows = E.filteredRows
    /\ rowPool = E.rowPool
    /\ tbody = E.tbody
    /\ allocated = E.allocated
    /\ maxShown = E.maxShown
    /\ sortButtons = E.sortButtons
    /\ pagination = E.pagination
    /\ tableInfo = E.tableInfo

\* No call of isDateInRange from outside the engine.
NoProbe == [dateStr |-> <<>>, range |-> "", result |-> "none"]

Init ==
    /\ now = Now0
    /\ utcOffset = 1
    /\ probe = NoProbe
    /\ \E rows \in Tables, controls \in BOOLEAN :
          \E E \in Constructor(rows, controls) : Starts(E)

\* A header activation: the click listener of a sort button, or a call of
\* handleSort.
HandleSort(columnIndex) ==
    \E E \in handleSort(This, columnIndex) : Becomes(E)

\* The change listener of a dropdown of values: the filter is stored, then
\* updatePagination() and updateTable() run.
valueFilterChange(E, colIndex, filterVal) ==
    updateTable(updatePagination(
        [E EXCEPT !.currentValueFilters =
            [c \in (DOMAIN E.currentValueFilters) \cup {colIndex} |->
                IF c = colIndex THEN filterVal ELSE E.currentValueFilters[c]]]))

ValueFilterChange(colIndex, filterVal) ==
    /\ hasControls
    /\ \E E \in valueFilterChange(This, colIndex, filterVal) : Becomes(E)

\* The change listener of the display-limit select.
displayLimitChange(E, value) ==
    updateTable([E EXCEPT !.displayLimit = DisplayLimitOf(value)])

DisplayLimitChange(value) ==
    /\ hasControls
    /\ \E E \in displayLimitChange(This, value) : Becomes(E)

\* The click listener of the i-th button of the pagination element.
pageClick(E, i) ==
    updateTable([E EXCEPT !.currentPageIndex = E.pagination[i].pageIndex])

PageClick(i) ==
    /\ hasControls
    /\ i \in DOMAIN pagination
    /\ ~pagination[i].disabled
    /\ \E E \in pageClick(This, i) : Becomes(E)

\* A call of the public updateTable().
UpdateTable ==
    \E E \in updateTable(This) : Becomes(E)

Next ==
    \/ \E columnIndex \in SortableColumns : HandleSort(columnIndex)
    \/ \E colIndex \in ValueFilterColumns(allRows) :
          \E filterVal \in ValueOptions(allRows, colIndex) :
              ValueFilterChange(colIndex, filterVal)
    \/ \E value \in DisplayLimitOptions : DisplayLimitChange(value)
    \/ \E i \in 1..5 : PageClick(i)
    \/ UpdateTable

Spec == Init /\ [][Next]_vars

\* ------------------------------------------------- sortRows, called alone

\* The largest number of rows of a table whose columns are sorted.
MaxSortRows == 3

Date3 == <<"1", "5", "/", "0", "4", "/", "2", "0", "2", "4">>

\* The texts of the sorted column: empty, dates, a text, numbers with a
\* comma and with a dot.
SortTexts ==
    {<<>>, Date1, Date2, Date3, <<"c">>, <<"1", ",", "5">>, <<"1", ".", "2">>}

\* A row with a cell of the sorted column, and a row without.
SortRowKinds ==
    {[cells |-> <<PlainCell(<<"7">>), PlainCell(t)>>] : t \in SortTexts}
        \cup {[cells |-> <<PlainCell(<<"7">>)>>]}

RECURSIVE SortTablesOfLen(_)
SortTablesOfLen(n) ==
    IF n = 0 THEN {<<>>}
    ELSE {Append(t, r) : t \in SortTablesOfLen(n - 1), r \in SortRowKinds}

SortTables == UNION {SortTablesOfLen(n) : n \in 0..MaxSortRows}

SortInit ==
    /\ now = Now0
    /\ utcOffset = 1
    /\ probe = NoProbe
    /\ \E rows \in SortTables : \E E \in Constructor(rows, FALSE) : Starts(E)

\* A call of sortRows(columnIndex, direction), as the tests make it.
SortRows(columnIndex, direction) ==
    \E sorted \in sortRows(rowsCache, columnIndex, direction) :
        Becomes([This EXCEPT !.rowsCache = sorted])

SortNext ==
    \E columnIndex \in 0..(HeaderCols - 1), direction \in {"asc", "desc"} :
        SortRows(columnIndex, direction)

SortSpec == SortInit /\ [][SortNext]_vars

\* ---------------------------------------- filters, set as the tests set them

\* The rows of a filtered table: a text and a date, a date and a text, and
\* a row that lacks the third cell.
FilterRowKinds ==
    {[cells |-> <<PlainCell(<<"7">>), PlainCell(<<"A">>), PlainCell(Date1)>>],
     [cells |-> <<PlainCell(<<"7">>), PlainCell(<<"c">>), PlainCell(Date2)>>],
     [cells |-> <<PlainCell(<<"7">>), PlainCell(Date1), PlainCell(<<"c">>)>>],
     [cells |-> <<PlainCell(<<"7">>), PlainCell(<<"A">>)>>]}

RECURSIVE FilterTablesOfLen(_)
FilterTablesOfLen(n) ==
    IF n = 0 THEN {<<>>}
    ELSE {Append(t, r) : t \in FilterTablesOfLen(n - 1), r \in FilterRowKinds}

FilterTables == UNION {FilterTablesOfLen(n) : n \in 0..MaxRows}

\* The values of a date input: none, and the days of Date1 and of Date2.
Iso1 == <<"2", "0", "2", "5", "-", "0", "2", "-", "1", "0">>
Iso2 == <<"2", "0", "2", "5", "-", "0", "3", "-", "0", "5">>
BoundValues == {<<>>, Iso1, Iso2}

\* The filter objects assigned: buckets on columns 1 and 2, "decade" being
\* no bucket of isDateInRange, a range on column 2, a value on column 1.
DateFilterStates ==
    {[c \in {1, 2} |-> IF c = 1 THEN first ELSE second] :
        first \in {"", "month"}, second \in {"", "month", "decade"}}

DateRangeFilterStates ==
    {[c \in {2} |-> [from |-> from, to |-> to]] :
        from \in BoundValues, to \in BoundValues}

FilterValues == {<<>>, <<"A">>}

ValueFilterStates == {[c \in {1} |-> v] : v \in FilterValues}

\* An engine built in a test environment, in a time zone west or east of
\* Greenwich, whose filter objects have then been assigned.
FilterInit ==
    /\ now = Now0
    /\ utcOffset \in {0 - 5, 1}
    /\ probe = NoProbe
    /\ \E rows \in FilterTables :
          \E E \in Constructor(rows, FALSE) :
             \E dates \in DateFilterStates, ranges \in DateRangeFilterStates,
                values \in ValueFilterStates :
                Starts([E EXCEPT !.currentDateFilters = dates,
                                 !.currentDateRangeFilters = ranges,
                                 !.currentValueFilters = values])

\* A call of applyFilters().
ApplyFilters == Becomes(applyFilters(This))

\* currentValueFilters[colIndex] = filterVal, then applyFilters().
setValueFilter(E, colIndex, filterVal) ==
    applyFilters(
        [E EXCEPT !.currentValueFilters =
            [c \in (DOMAIN E.currentValueFilters) \cup {colIndex} |->
                IF c = colIndex THEN filterVal ELSE E.currentValueFilters[c]]])

SetValueFilter(colIndex, filterVal) ==
    Becomes(setValueFilter(This, colIndex, filterVal))

FilterNext ==
    \/ ApplyFilters
    \/ UpdateTable
    \/ \E columnIndex \in SortableColumns : HandleSort(columnIndex)
    \/ \E filterVal \in FilterValues : SetValueFilter(1, filterVal)

FilterSpec == FilterInit /\ [][FilterNext]_vars

\* ------------------------------------------------- the bucketed-date filters

\* The change listener of a bucketed-date dropdown:
\* currentDateFilters[colIndex] = filterVal, then updateTable().
dateFilterChange(E, colIndex, filterVal) ==
    updateTable(
        [E EXCEPT !.currentDateFilters =
            [c \in (DOMAIN E.currentDateFilters) \cup {colIndex} |->
                IF c = colIndex THEN filterVal ELSE E.currentDateFilters[c]]])

DateFilterChange(colIndex, filterVal) ==
    \E E \in dateFilterChange(This, colIndex, filterVal) : Becomes(E)

\* The options chosen in the dropdowns of columns 1 and 2.
DateFilterOptions == {"", "month"}

\* An engine built on a page, whose dropdowns of columns 1 and 2 are then
\* changed, between sort requests and further update cycles.
BucketInit ==
    /\ now = Now0
    /\ utcOffset = 1
    /\ probe = NoProbe
    /\ \E rows \in FilterTables :
          \E E \in Constructor(rows, FALSE) : Starts(E)

BucketNext ==
    \/ \E colIndex \in {1, 2}, filterVal \in DateFilterOptions :
          DateFilterChange(colIndex, filterVal)
    \/ \E columnIndex \in SortableColumns : HandleSort(columnIndex)
    \/ UpdateTable

BucketSpec == BucketInit /\ [][BucketNext]_vars

\* ------------------------------------------- isDateInRange, called alone

\* formatDate of the tests: padStart(2, '0') of the day and of the month,
\* then the year (of four digits here).
DigitChar(n) == <<"0", "1", "2", "3", "4", "5", "6", "7", "8", "9">>[n + 1]

FormatDate(y, m0, d) ==
    <<DigitChar(d \div 10), DigitChar(d % 10), "/",
      DigitChar((m0 + 1) \div 10), DigitChar((m0 + 1) % 10), "/",
      DigitChar(y \div 1000), DigitChar((y \div 100) % 10),
      DigitChar((y \div 10) % 10), DigitChar(y % 10)>>

DaysInMonth(y, m0) == MakeDay(y, m0 + 1, 1) - MakeDay(y, m0, 1)

\* The months the texts are taken from: December 2024 to January 2026.
ProbeMonths ==
    {[y |-> 2024, m0 |-> 11], [y |-> 2026, m0 |-> 0]}
        \cup {[y |-> 2025, m0 |-> m0] : m0 \in 0..11}

\* The texts given to isDateInRange: every day of those months, and three
\* texts that are no DD/MM/YYYY.
ProbeTexts ==
    (UNION {{FormatDate(ym.y, ym.m0, d) : d \in 1..DaysInMonth(ym.y, ym.m0)} :
                ym \in ProbeMonths})
        \cup {<<>>, <<"c">>, Iso1}

\* The current dates: a Wednesday in a month, the first and the last day
\* of the year, a Sunday and a Saturday, ends and starts of quarters and
\* the last day of February.
ProbeNows ==
    {Now0,
     [y |-> 2025, m0 |-> 0, d |-> 1], [y |-> 2025, m0 |-> 11, d |-> 31],
     [y |-> 2025, m0 |-> 5, d |-> 29], [y |-> 2025, m0 |-> 6, d |-> 5],
     [y |-> 2025, m0 |-> 2, d |-> 31], [y |-> 2025, m0 |-> 3, d |-> 1],
     [y |-> 2025, m0 |-> 8, d |-> 30], [y |-> 2025, m0 |-> 9, d |-> 1],
     [y |-> 2025, m0 |-> 1, d |-> 28]}

\* The range arguments: the five buckets and a value that is none of them.
ProbeRanges == {"today", "week", "month", "quarter", "year", "decade"}

DateInit ==
    /\ now \in ProbeNows
    /\ utcOffset = 1
    /\ \E dateStr \in ProbeTexts :
          probe = [dateStr |-> dateStr, range |-> "", result |-> "none"]
    /\ \E E \in Constructor(<<>>, FALSE) : Starts(E)

\* What a caller of isDateInRange sees: the error, or the boolean.
Outcome(r) == IF r.threw THEN "throw" ELSE IF r.value THEN "true" ELSE "false"

\* A call isDateInRange(dateStr, range) from outside the engine.
IsDateInRange(range) ==
    /\ probe' = [dateStr |-> probe.dateStr, range |-> range,
                 result |-> Outcome(isDateInRange(probe.dateStr, range))]
    /\ UNCHANGED <<now, utcOffset, allRows, hasControls, displayLimit,
                   currentPageIndex, currentDateFilters, currentValueFilters,
                   currentDateRangeFilters, threw, currentSort, rowsCache,
                   filteredRows, rowPool, tbody, allocated, maxShown,
                   sortButtons, pagination, tableInfo,
                   container, self, keys, earlier, error>>

DateNext == \E range \in ProbeRanges : IsDateInRange(range)

DateSpec == DateInit /\ [][DateNext]_vars

\* ------------------------------------------------ tables of several pages

\* Tables of up to MaxPageRows rows of two kinds, in a container with its
\* controls: with a page size of 1 the page selector has pages to jump to.
MaxPageRows == 4

PageRowKinds ==
    {[cells |-> <<PlainCell(<<"7">>), PlainCell(<<"c">>), PlainCell(Date1)>>],
     [cells |-> <<PlainCell(<<"7">>), PlainCell(<<"A">>), PlainCell(Date2)>>]}

RECURSIVE PageTablesOfLen(_)
PageTablesOfLen(n) ==
    IF n = 0 THEN {<<>>}
    ELSE {Append(t, r) : t \in PageTablesOfLen(n - 1), r \in PageRowKinds}

PageTables == UNION {PageTablesOfLen(n) : n \in 0..MaxPageRows}

PageInit ==
    /\ now = Now0
    /\ utcOffset = 1
    /\ probe = NoProbe
    /\ \E rows \in PageTables :
          \E E \in Constructor(rows, TRUE) : Starts(E)

PageNext ==
    \/ \E value \in DisplayLimitOptions : DisplayLimitChange(value)
    \/ \E i \in 1..5 : PageClick(i)

PageSpec == PageInit /\ [][PageNext]_vars

\* ------------------------------------------- construction and teardown

\* The largest table an engine is constructed over, and the number of
\* engines constructed over the container.
MaxLifeRows == 2
MaxEngines == 2

LifeTables == UNION {PageTablesOfLen(n) : n \in 0..MaxLifeRows}

\* The rows of the tbody as the author wrote them: no engine rendered
\* them (their id is not positive) and they have no data-original-index.
SourceRows(rows) ==
    [i \in 1..Len(rows) |-> [id |-> 0 - i, tag |-> 0 - 1, cells |-> rows[i].cells]]

\* The fields of the latest engine before any engine is constructed.
NoEngine(rows, controls) ==
    [allRows |-> <<>>, hasControls |-> controls,
     displayLimit |-> Int2Js(0), currentPageIndex |-> 0,
     currentDateFilters |-> <<>>, currentValueFilters |-> <<>>,
     currentDateRangeFilters |-> <<>>, threw |-> FALSE,
     currentSort |-> [column |-> NoColumn, direction |-> NoDirection],
     rowsCache |-> <<>>, filteredRows |-> <<>>, rowPool |-> <<>>,
     tbody |-> SourceRows(rows), allocated |-> 0, maxShown |-> 0,
     sortButtons |-> <<>>, pagination |-> <<>>,
     tableInfo |-> [showing |-> Int2Js(0), filteredTotal |-> 0, total |-> 0]]

\* The engine that is none: the fields of NoEngine.
StartsWithout(E) ==
    /\ allRows = E.allRows
    /\ hasControls = E.hasControls
    /\ displayLimit = E.displayLimit
    /\ currentPageIndex = E.currentPageIndex
    /\ currentDateFilters = E.currentDateFilters
    /\ currentValueFilters = E.currentValueFilters
    /\ currentDateRangeFilters = E.currentDateRangeFilters
    /\ threw = E.threw
    /\ currentSort = E.currentSort
    /\ rowsCache = E.rowsCache
    /\ filteredRows = E.filteredRows
    /\ rowPool = E.rowPool
    /\ tbody = E.tbody
    /\ allocated = E.allocated
    /\ maxShown = E.maxShown
    /\ sortButtons = E.sortButtons
    /\ pagination = E.pagination
    /\ tableInfo = E.tableInfo

\* A container with a table of some rows, or without a table, in a test
\* environment or not, before any engine is constructed over it.
LifeInit ==
    /\ now = Now0
    /\ utcOffset = 1
    /\ probe = NoProbe
    /\ self = NoManager
    /\ keys = {}
    /\ earlier = <<>>
    /\ error = ""
    /\ \E table \in BOOLEAN, ownSelect \in BOOLEAN, controls \in BOOLEAN :
          /\ container = SourceContainer(table, ownSelect)
          /\ \E rows \in (IF table THEN LifeTables ELSE {<<>>}) :
                StartsWithout(NoEngine(rows, controls))

\* The latest engine, the container and the earlier engines.
World ==
    [engine |-> This, keys |-> keys, container |-> container, self |-> self,
     earlier |-> earlier, error |-> error]

Turns(W) ==
    /\ Assigns(W.engine)
    /\ keys' = W.keys
    /\ container' = W.container
    /\ self' = W.self
    /\ earlier' = W.earlier
    /\ error' = W.error

\* new LiteTableManager(null), new LiteTableManager(container).
New(tableContainer) ==
    /\ tableContainer = "null" \/ self < MaxEngines
    /\ \E W \in new(World, tableContainer) : Turns(W)

\* destroy() of the latest engine.
Destroy ==
    /\ self # NoManager
    /\ Turns(destroy(World))

\* destroy() of an engine constructed before the latest.
DestroyEarlier(i) ==
    /\ i \in 1..Len(earlier)
    /\ Turns(destroyEarlier(World, i))

\* The latest engine has not been destroyed.
Live == "container" \in keys

\* The options of the select the engine creates (initDisplayLimit).
CreatedLimitOptions ==
    {<<"1", "0">>, <<"2", "5">>, <<"5", "0">>, <<"1", "0", "0">>}

LimitOptions(C) == IF C.ownSelect THEN DisplayLimitOptions ELSE CreatedLimitOptions

\* A change of the .displayLimit select.  Every engine constructed outside
\* a test environment has put a listener on the select it found; the select
\* of the container outlives the engines, so that the listener of a
\* destroyed engine sets its displayLimit before its updateTable() throws.
limitSelectChange(W, value) ==
    LET heard == [i \in 1..Len(W.earlier) |->
                    IF W.container.ownSelect
                    THEN [W.earlier[i] EXCEPT !.keys = @ \cup {"displayLimit"}]
                    ELSE W.earlier[i]]
    IN  IF "container" \in W.keys
        THEN {[W EXCEPT !.engine = E, !.earlier = heard] :
                E \in displayLimitChange(W.engine, value)}
        ELSE {[W EXCEPT !.engine.displayLimit = DisplayLimitOf(value),
                        !.keys = @ \cup {"displayLimit"},
                        !.earlier = heard]}

LimitSelectChange(value) ==
    /\ hasControls
    /\ self # NoManager
    /\ container.ownSelect \/ container.displayLimit > 0
    /\ \E W \in limitSelectChange(World, value) : Turns(W)

LifeNext ==
    \/ \E tableContainer \in {"null", "container"} : New(tableContainer)
    \/ Destroy
    \/ \E i \in 1..MaxEngines : DestroyEarlier(i)
    \/ \E value \in LimitOptions(container) : LimitSelectChange(value)
    \/ \E columnIndex \in SortableColumns : Live /\ HandleSort(columnIndex)
    \/ \E i \in 1..5 : Live /\ PageClick(i)
    \/ \E colIndex \in ValueFilterColumns(allRows) :
          \E filterVal \in ValueOptions(allRows, colIndex) :
              Live /\ ValueFilterChange(colIndex, filterVal)

LifeSpec == LifeInit /\ [][LifeNext]_vars

\* ----------------------------------- pages of a column of dates and texts

\* Tables of up to MaxNavRows rows whose third column holds two dates and a
\* text, in a container with its controls: the constructor sorts them by
\* that column, and each page click and page-size change sorts them again.
MaxNavRows == 3

NavRowKinds ==
    {[cells |-> <<PlainCell(<<"7">>), PlainCell(<<"A">>), PlainCell(Date1)>>],
     [cells |-> <<PlainCell(<<"7">>), PlainCell(<<"A">>), PlainCell(Date2)>>],
     [cells |-> <<PlainCell(<<"7">>), PlainCell(<<"A">>), PlainCell(<<"c">>)>>]}

RECURSIVE NavTablesOfLen(_)
NavTablesOfLen(n) ==
    IF n = 0 THEN {<<>>}
    ELSE {Append(t, r) : t \in NavTablesOfLen(n - 1), r \in NavRowKinds}

NavTables == UNION {NavTablesOfLen(n) : n \in 0..MaxNavRows}

NavInit ==
    /\ now = Now0
    /\ utcOffset = 1
    /\ probe = NoProbe
    /\ \E rows \in NavTables :
          \E E \in Constructor(rows, TRUE) : Starts(E)

NavNext ==
    \/ \E value \in DisplayLimitOptions : DisplayLimitChange(value)
    \/ \E i \in 1..5 : PageClick(i)

NavSpec == NavInit /\ [][NavNext]_vars

\* ---------------------------------------------------------------- claims

SortIs(E, column, direction) ==
    E.currentSort = [column |-> column, direction |-> direction]

InOriginalOrder(cache) ==
    \A i \in 1..Len(cache) : cache[i].originalIndex = i - 1

\* The engines a construction over the same source rows may build.
FreshEngines == Constructor(allRows, hasControls)

IsFresh == This \in FreshEngines

\* C1. Cache integrity: the Row Cache holds exactly one Row Record for each
\* source row, the record of originalIndex k being the one built from the
\* k-th source row: sorting, filtering and paging only permute the cache.
C1_CacheIntegrity ==
    /\ Len(rowsCache) = Len(allRows)
    /\ \A k \in 0..(Len(allRows) - 1) :
          /\ Cardinality({i \in 1..Len(rowsCache) :
                            rowsCache[i].originalIndex = k}) = 1
          /\ \A i \in 1..Len(rowsCache) :
                rowsCache[i].originalIndex = k =>
                    rowsCache[i] = RowRecord(allRows[k + 1], k)

\* A sort has permuted a cache of several rows, under an active filter.
C1_Witness ==
    /\ Len(rowsCache) >= 2
    /\ ~InOriginalOrder(rowsCache)
    /\ ActiveKeys(currentValueFilters) # {}

\* The slice of the Filtered View the claim C2 names, an unbounded page
\* size making one page of the whole view.
ClaimedSliceStart ==
    IF displayLimit.k = "inf" THEN 0 ELSE displayLimit.m * (currentPageIndex - 1)

ClaimedSliceStop ==
    IF displayLimit.k = "inf" THEN Len(filteredRows)
    ELSE IF displayLimit.m * currentPageIndex < Len(filteredRows)
    THEN displayLimit.m * currentPageIndex
    ELSE Len(filteredRows)

\* C2. Render contract: after every completed update cycle the display
\* surface holds the rows of the Filtered View at the indices
\* [pageSize*(currentPage-1), min(pageSize*currentPage, filteredCount)), in
\* that order and nothing else, the i-th surface being tagged with the
\* originalIndex of the i-th row of the slice.
C2_RenderContract ==
    /\ Len(tbody) = ClaimedSliceStop - ClaimedSliceStart
    /\ \A i \in 1..Len(tbody) :
          tbody[i].tag = filteredRows[ClaimedSliceStart + i].originalIndex

\* C3. Pool bound: the number of row surfaces cloned never exceeds the
\* largest number of rows one cycle has displayed, and a cycle that clones
\* a surface found the pool empty when it did (so it ends with an empty
\* pool).
C3_PoolBound ==
    [][/\ allocated <= maxShown
       /\ allocated' <= maxShown'
       /\ (allocated' > allocated => rowPool' = <<>>)]_vars

\* Cycles have displayed up to two rows and a later cycle displays fewer,
\* from the pool.
C3_Witness ==
    /\ allocated >= 2
    /\ allocated = maxShown
    /\ rowPool # <<>>
    /\ tbody # <<>>

Ids(surfaces) == {surfaces[i].id : i \in 1..Len(surfaces)}

\* C4. Pool ownership: no surface is twice in the pool or twice in the
\* display, none is in both, and every surface ever cloned is in one of
\* the two.
C4_PoolOwnership ==
    /\ Cardinality(Ids(rowPool)) = Len(rowPool)
    /\ Cardinality(Ids(tbody)) = Len(tbody)
    /\ Ids(rowPool) \cap Ids(tbody) = {}
    /\ Ids(rowPool) \cup Ids(tbody) = 1..allocated

\* Surfaces have moved: the first surface cloned is displayed after the
\* second, or is pooled while another is displayed.
C4_Witness ==
    /\ allocated >= 2
    /\ tbody # <<>>
    /\ \/ tbody[Len(tbody)].id = 1 /\ Len(tbody) >= 2
       \/ 1 \in Ids(rowPool)

\* What an update cycle leaves to see: the order of the cache, the
\* Filtered View, the page, the displayed rows (tag and cells, with the
\* markup and the attributes of each cell) and the summary counts.
Visible(E) ==
    [cacheOrder |-> [i \in 1..Len(E.rowsCache) |-> E.rowsCache[i].originalIndex],
     filtered   |-> [i \in 1..Len(E.filteredRows) |-> E.filteredRows[i].originalIndex],
     page       |-> E.currentPageIndex,
     displayed  |-> [i \in 1..Len(E.tbody) |->
                        [tag |-> E.tbody[i].tag, cells |-> E.tbody[i].cells]],
     counts     |-> E.tableInfo]

\* C5. Idempotence: from every reachable state, a second updateTable()
\* leaves the cache order, the Filtered View, the page, the displayed rows
\* and the counts as the first left them.
C5_UpdateIdempotent ==
    \A E1 \in updateTable(This) :
        \A E2 \in updateTable(E1) : Visible(E2) = Visible(E1)

\* C6. Sort tri-state: three consecutive activations of a column that is
\* not the sorted one give (c, asc), (c, desc), (null, null), and the
\* third leaves the cache in ascending originalIndex order.
C6_SortTriState ==
    \A c \in SortableColumns :
        currentSort.column # c =>
            \A E1 \in handleSort(This, c) :
                /\ SortIs(E1, c, "asc")
                /\ \A E2 \in handleSort(E1, c) :
                      /\ SortIs(E2, c, "desc")
                      /\ \A E3 \in handleSort(E2, c) :
                            /\ SortIs(E3, NoColumn, NoDirection)
                            /\ InOriginalOrder(E3.rowsCache)

\* The state is the one three activations of column 1 leave, from a fresh
\* engine that the constructor had sorted by another column.
C6_Witness ==
    /\ Len(rowsCache) >= 2
    /\ \E F \in FreshEngines :
          /\ F.currentSort.column \notin {1, NoColumn}
          /\ ~InOriginalOrder(F.rowsCache)
          /\ \E E1 \in handleSort(F, 1) :
                \E E2 \in handleSort(E1, 1) : This \in handleSort(E2, 1)

\* C7. The direction is null exactly when the column is null, and then
\* the cache is in ascending originalIndex order.
C7_NullSortIsOriginalOrder ==
    /\ (currentSort.direction = NoDirection) <=> (currentSort.column = NoColumn)
    /\ currentSort.direction = NoDirection => InOriginalOrder(rowsCache)

\* A sort that had reordered the cache has been cleared: the constructor
\* sorts this table, whose dates are not in descending order, and the
\* state has no sort.
C7_Witness ==
    /\ currentSort.direction = NoDirection
    /\ Len(rowsCache) >= 2
    /\ \E F \in FreshEngines :
          F.currentSort.column # NoColumn /\ ~InOriginalOrder(F.rowsCache)

\* C8, as claimed: on a fresh engine the first activation of any sortable
\* column c gives (c, asc).
C8_FirstActivationAscending ==
    IsFresh =>
        \A c \in SortableColumns :
            \A E \in handleSort(This, c) : SortIs(E, c, "asc")

\* C8, amended: on a fresh engine the first activation of a sortable
\* column c gives (c, asc), unless c is the column the constructor sorts
\* by (descending): its first activation clears the sort.
C8_FirstActivation ==
    IsFresh =>
        \A c \in SortableColumns :
            \A E \in handleSort(This, c) :
                IF c = DefaultSortColumn(rowsCache)
                THEN SortIs(E, NoColumn, NoDirection)
                ELSE SortIs(E, c, "asc")

\* The state is the one a first activation leaves, from a fresh engine
\* that the constructor had sorted: of the sorted column (the sort is
\* cleared), or of another (ascending).
C8_Witness ==
    \E F \in FreshEngines :
        /\ F.currentSort.column # NoColumn
        /\ Len(F.rowsCache) >= 2
        /\ \E c \in SortableColumns :
              /\ This \in handleSort(F, c)
              /\ c = F.currentSort.column => currentSort.column = NoColumn
              /\ c # F.currentSort.column => SortIs(This, c, "asc")

\* C9. An activation of a column other than the sorted one gives
\* (column, asc) and leaves no indicator on another header; in every
\* state a header that shows an indicator is the one of the sorted
\* column, and shows its direction.
C9_SingleIndicator ==
    /\ \A b \in DOMAIN sortButtons :
          sortButtons[b] # "" =>
              b = currentSort.column /\ sortButtons[b] = currentSort.direction
    /\ \A c \in SortableColumns :
          currentSort.column # c =>
              \A E \in handleSort(This, c) :
                  /\ SortIs(E, c, "asc")
                  /\ \A b \in DOMAIN E.sortButtons :
                        b # c => E.sortButtons[b] = ""

\* Column 1 shows asc on an engine that the constructor had sorted by
\* another column, with its indicator.
C9_Witness ==
    /\ hasControls
    /\ sortButtons[1] = "asc"
    /\ \E F \in FreshEngines :
          F.currentSort.column \notin {1, NoColumn}
          /\ F.sortButtons[F.currentSort.column] = "desc"

EmptiesLast(cache, columnIndex) ==
    \A i, j \in 1..Len(cache) :
        i < j => ~(/\ CellText(cache[i], columnIndex) = <<>>
                   /\ CellText(cache[j], columnIndex) # <<>>)

\* C10. Empty sort keys last: after sortRows(c, 'asc') and after
\* sortRows(c, 'desc'), every row with an empty text in column c comes
\* after every row with a non-empty one.
C10_EmptyKeysLast ==
    \A c \in 0..(HeaderCols - 1) :
        \A direction \in {"asc", "desc"} :
            \A sorted \in sortRows(rowsCache, c, direction) :
                EmptiesLast(sorted, c)

Columns == 0..(HeaderCols - 1)

\* The text of the first row of the cache whose text in the column is not
\* empty; empty when there is none.
FirstNonEmptyText(cache, columnIndex) ==
    LET nonEmpty == {i \in 1..Len(cache) : CellText(cache[i], columnIndex) # <<>>}
    IN  IF nonEmpty = {} THEN <<>>
        ELSE CellText(cache[CHOOSE i \in nonEmpty : \A k \in nonEmpty : i <= k],
                      columnIndex)

\* The type C11 names: date, else number, else text, of that text.
ClaimedColumnType(cache, columnIndex) ==
    LET sample == FirstNonEmptyText(cache, columnIndex)
    IN  IF sample = <<>> THEN "text"
        ELSE IF IsDateFormat(sample) THEN "date"
        ELSE IF ~IsNaN(ToNumber(ReplaceFirstComma(sample))) THEN "number"
        ELSE "text"

\* C11. Column type inference: the type sortRows uses is the one of the
\* first row of the cache whose text in the column is not empty, the rows
\* with an empty cell being skipped: date if it matches DD/MM/YYYY, else
\* number if it parses as a number with the comma replaced, else text.
C11_TypeFromFirstNonEmpty ==
    \A c \in Columns :
        ColumnType(rowsCache, c) = ClaimedColumnType(rowsCache, c)

\* The calendar date of a DD/MM/YYYY text as one number, yyyymmdd.
DateKey(text) ==
    DigitsValue(SubSeq(text, 7, 10)) * 10000
        + DigitsValue(SubSeq(text, 4, 5)) * 100
        + DigitsValue(SubSeq(text, 1, 2))

\* A number written with digits, a decimal separator ',' or '.', digits.
SeparatorAt(text) ==
    {i \in 2..(Len(text) - 1) : text[i] \in {",", "."}}

IsDecimalText(text) ==
    /\ text # <<>>
    /\ \/ \A i \in 1..Len(text) : text[i] \in Digits
       \/ /\ Cardinality(SeparatorAt(text)) = 1
          /\ \A i \in (1..Len(text)) \ SeparatorAt(text) : text[i] \in Digits

\* -1, 0 or 1 as the number written by a is below, equal to or above the
\* one written by b: the integer parts, then the fractions padded.
DecimalCompare(a, b) ==
    LET whole(t) == IF SeparatorAt(t) = {} \/ ~(Cardinality(SeparatorAt(t)) = 1)
                    THEN t
                    ELSE SubSeq(t, 1, (CHOOSE i \in SeparatorAt(t) : TRUE) - 1)
        frac(t) == IF ~(Cardinality(SeparatorAt(t)) = 1) THEN <<>>
                   ELSE SubSeq(t, (CHOOSE i \in SeparatorAt(t) : TRUE) + 1, Len(t))
        width == IF Len(frac(a)) > Len(frac(b)) THEN Len(frac(a)) ELSE Len(frac(b))
        scaled(t) == (DigitsValue(whole(t)) * Pow10(Len(frac(t)))
                        + (IF frac(t) = <<>> THEN 0 ELSE DigitsValue(frac(t))))
                     * Pow10(width - Len(frac(t)))
    IN  Sgn(scaled(a) - scaled(b))

AllDates(cache, columnIndex) ==
    \A i \in 1..Len(cache) : IsDateFormat(CellText(cache[i], columnIndex))

AllDecimals(cache, columnIndex) ==
    \A i \in 1..Len(cache) : IsDecimalText(CellText(cache[i], columnIndex))

Chronological(cache, columnIndex) ==
    \A i, j \in 1..Len(cache) :
        i < j => DateKey(CellText(cache[i], columnIndex))
                    <= DateKey(CellText(cache[j], columnIndex))

ReverseChronological(cache, columnIndex) ==
    \A i, j \in 1..Len(cache) :
        i < j => DateKey(CellText(cache[i], columnIndex))
                    >= DateKey(CellText(cache[j], columnIndex))

\* C12. Sort correctness: for a column of DD/MM/YYYY dates, none empty,
\* sortRows ascending leaves the cache in chronological order and
\* descending in the reverse order; for a column of numbers written with
\* a '.' or a ',', in numeric order and in the reverse.
C12_SortCorrect ==
    \A c \in Columns :
        /\ AllDates(rowsCache, c) =>
              /\ \A sorted \in sortRows(rowsCache, c, "asc") :
                    Chronological(sorted, c)
              /\ \A sorted \in sortRows(rowsCache, c, "desc") :
                    ReverseChronological(sorted, c)
        /\ AllDecimals(rowsCache, c) =>
              /\ \A sorted \in sortRows(rowsCache, c, "asc") :
                    \A i, j \in 1..Len(sorted) :
                        i < j => DecimalCompare(CellText(sorted[i], c),
                                                CellText(sorted[j], c)) <= 0
              /\ \A sorted \in sortRows(rowsCache, c, "desc") :
                    \A i, j \in 1..Len(sorted) :
                        i < j => DecimalCompare(CellText(sorted[i], c),
                                                CellText(sorted[j], c)) >= 0

\* sortRows has put three rows of distinct dates, which were in another
\* order, in chronological order.
C12_Witness ==
    /\ Len(rowsCache) = 3
    /\ AllDates(rowsCache, 1)
    /\ \A i, j \in 1..3 :
          i < j => DateKey(CellText(rowsCache[i], 1)) < DateKey(CellText(rowsCache[j], 1))
    /\ rowsCache[1].originalIndex = 2
    /\ rowsCache[3].originalIndex = 1

\* The position of a row in a cache.
PositionIn(cache, rowData) == CHOOSE i \in 1..Len(cache) : cache[i] = rowData

\* C13. For every column and direction, the comparison sortRows uses over
\* the rows of the cache, whatever their texts, is a strict total order
\* modulo ties (antisymmetric, transitive), and the rows that compare
\* equal keep the order they had.
C13_ComparatorTotalOrder ==
    \A c \in Columns :
        \A direction \in {"asc", "desc"} :
            LET signs == SignMatrix(rowsCache, c, direction, ColumnType(rowsCache, c))
            IN  /\ ConsistentComparator(Len(rowsCache), signs)
                /\ \A sorted \in sortRows(rowsCache, c, direction) :
                      \A i, j \in 1..Len(sorted) :
                          (/\ i < j
                           /\ signs[PositionIn(rowsCache, sorted[i])]
                                   [PositionIn(rowsCache, sorted[j])] = 0)
                          => PositionIn(rowsCache, sorted[i])
                                < PositionIn(rowsCache, sorted[j])

\* ------------------------------------------------- claims on the filters

\* The calendar day of a DD/MM/YYYY text and of a YYYY-MM-DD value, as
\* [y, m, d], and the order of calendar days.
TextDay(text) ==
    [y |-> DigitsValue(SubSeq(text, 7, 10)),
     m |-> DigitsValue(SubSeq(text, 4, 5)),
     d |-> DigitsValue(SubSeq(text, 1, 2))]

IsoDay(value) ==
    [y |-> DigitsValue(SubSeq(value, 1, 4)),
     m |-> DigitsValue(SubSeq(value, 6, 7)),
     d |-> DigitsValue(SubSeq(value, 9, 10))]

NowDay == [y |-> now.y, m |-> now.m0 + 1, d |-> now.d]

DayBefore(a, b) ==
    \/ a.y < b.y
    \/ a.y = b.y /\ a.m < b.m
    \/ a.y = b.y /\ a.m = b.m /\ a.d < b.d

\* The days since Sunday 31 December 2023 of a calendar day of 2024 or
\* later, counted month by month and year by year.
MonthLength(y, m) ==
    IF m = 2 THEN (IF IsLeap(y) THEN 29 ELSE 28)
    ELSE IF m \in {4, 6, 9, 11} THEN 30 ELSE 31

RECURSIVE DaysOfMonthsBefore(_, _)
DaysOfMonthsBefore(y, m) ==
    IF m <= 1 THEN 0 ELSE MonthLength(y, m - 1) + DaysOfMonthsBefore(y, m - 1)

RECURSIVE DaysOfYearsBefore(_)
DaysOfYearsBefore(y) ==
    IF y <= 2024 THEN 0
    ELSE (IF IsLeap(y - 1) THEN 366 ELSE 365) + DaysOfYearsBefore(y - 1)

DayOrdinal(day) == DaysOfYearsBefore(day.y) + DaysOfMonthsBefore(day.y, day.m) + day.d

\* The buckets of the specification, on calendar days: the week from
\* Sunday to Saturday, the month, the quarter, the year, the day; another
\* bucket value is no constraint.
Buckets == {"today", "week", "month", "quarter", "year"}

ClaimedInBucket(day, range) ==
    CASE range = "today" -> day = NowDay
      [] range = "week" -> DayOrdinal(day) \div 7 = DayOrdinal(NowDay) \div 7
      [] range = "month" -> day.y = NowDay.y /\ day.m = NowDay.m
      [] range = "quarter" ->
            day.y = NowDay.y /\ (day.m - 1) \div 3 = (NowDay.m - 1) \div 3
      [] range = "year" -> day.y = NowDay.y
      [] OTHER -> TRUE

\* The predicates of the specification for one row and one column.
ClaimedPassesBucket(rowData, c, filterVal) ==
    \/ filterVal \notin Buckets
    \/ /\ IsDateFormat(CellText(rowData, c))
       /\ ClaimedInBucket(TextDay(CellText(rowData, c)), filterVal)

RangeActive(range) == range.from # <<>> \/ range.to # <<>>

ClaimedWithin(day, range) ==
    /\ range.from = <<>> \/ ~DayBefore(day, IsoDay(range.from))
    /\ range.to = <<>> \/ ~DayBefore(IsoDay(range.to), day)

ClaimedPassesRange(rowData, c, range) ==
    \/ ~RangeActive(range)
    \/ /\ IsDateFormat(CellText(rowData, c))
       /\ ClaimedWithin(TextDay(CellText(rowData, c)), range)

ClaimedPassesValue(rowData, c, filterVal) ==
    filterVal = <<>> \/ CellText(rowData, c) = filterVal

ClaimedFilteredView(E) ==
    LET Passes(rowData) ==
            /\ \A c \in DOMAIN E.currentDateFilters :
                  ClaimedPassesBucket(rowData, c, E.currentDateFilters[c])
            /\ \A c \in DOMAIN E.currentDateRangeFilters :
                  ClaimedPassesRange(rowData, c, E.currentDateRangeFilters[c])
            /\ \A c \in DOMAIN E.currentValueFilters :
                  ClaimedPassesValue(rowData, c, E.currentValueFilters[c])
    IN  SelectSeq(E.rowsCache, Passes)

\* C14. When applyFilters() returns, the filtered rows are the rows of the
\* cache, in the order of the cache, that pass every active predicate of
\* the three kinds on every column.
C14_FilterConjunction ==
    LET Filtered(E) == ~E.threw => E.filteredRows = ClaimedFilteredView(This)
    IN  Filtered(applyFilters(This))

\* The filtered rows are those applyFilters() computes from the filter
\* objects of the state (or, when it throws, leaves).
ViewIsCurrent == applyFilters(This).filteredRows = filteredRows

\* No filter is active but, possibly, the value filter of column c.
NoOtherFilter(c) ==
    /\ \A k \in DOMAIN currentDateFilters : currentDateFilters[k] = ""
    /\ \A k \in DOMAIN currentDateRangeFilters :
          ~RangeActive(currentDateRangeFilters[k])
    /\ \A k \in DOMAIN currentValueFilters \ {c} : currentValueFilters[k] = <<>>

\* C15. Where the value filter of column 1 is empty, setting it to a value
\* (and applying the filters) and then back to the empty string (and
\* applying them) gives the filtered rows there were before; with no other
\* filter active they are as many as the rows of the cache.
C15_FilterReset ==
    (currentValueFilters[1] = <<>> /\ ViewIsCurrent) =>
        \A filterVal \in FilterValues \ {<<>>} :
            LET Restored(E) ==
                    /\ E.filteredRows = filteredRows
                    /\ NoOtherFilter(1) => Len(E.filteredRows) = Len(rowsCache)
            IN  Restored(setValueFilter(setValueFilter(This, 1, filterVal), 1, <<>>))

\* The value filter of column 1 has been emptied while the month filter
\* of column 2 keeps one row of two: the filter 'A' would keep none, and
\* the filtered rows are again the one row of this month.
C15_Witness ==
    /\ currentValueFilters[1] = <<>>
    /\ currentDateFilters[2] = "month"
    /\ ~threw
    /\ This = setValueFilter(setValueFilter(This, 1, <<"A">>), 1, <<>>)
    /\ Len(setValueFilter(This, 1, <<"A">>).filteredRows) = 0
    /\ Len(rowsCache) = 2
    /\ Len(filteredRows) = 1

\* C16. With an active range on a column, a row whose cell is a DD/MM/YYYY
\* date passes the range test of applyFilters exactly when its calendar day
\* is not before the day of from (if there is one) and not after the day of
\* to (if there is one); a row dated on the from day or on the to day
\* passes.
C16_RangeInclusive ==
    \A c \in DOMAIN currentDateRangeFilters :
        \A i \in 1..Len(rowsCache) :
            (/\ RangeActive(currentDateRangeFilters[c])
             /\ IsDateFormat(CellText(rowsCache[i], c)))
            => (PassesDateRange(rowsCache[i], c, currentDateRangeFilters[c])
                <=> ClaimedWithin(TextDay(CellText(rowsCache[i], c)),
                                  currentDateRangeFilters[c]))

\* The rows of a sequence with a cell text that is no DD/MM/YYYY in a
\* column whose range filter is active.
NonDateUnderRange(rowData) ==
    \E c \in DOMAIN currentDateRangeFilters :
        /\ RangeActive(currentDateRangeFilters[c])
        /\ ~IsDateFormat(CellText(rowData, c))

NoBucketFilter == \A c \in DOMAIN currentDateFilters : currentDateFilters[c] = ""

\* C17. An update cycle with active range filters and no bucketed-date
\* filter raises no error and completes (the summary counts the filtered
\* rows), and whenever a cycle completes, no row whose cell text in a
\* column with an active range is not DD/MM/YYYY (an empty or a missing
\* cell too) is in the filtered rows.
C17_RangeExcludesNonDate ==
    \A E \in updateTable(This) :
        /\ NoBucketFilter => ~E.threw
        /\ ~E.threw =>
              /\ \A i \in 1..Len(E.filteredRows) : ~NonDateUnderRange(E.filteredRows[i])
              /\ E.tableInfo.filteredTotal = Len(E.filteredRows)

\* An update cycle has completed with an active range on column 2 and no
\* bucketed-date filter: the cache holds a row whose column 2 is a text and
\* a row that lacks the cell, and the filtered rows hold neither.
C17_Witness ==
    /\ RangeActive(currentDateRangeFilters[2])
    /\ NoBucketFilter
    /\ ~threw
    /\ This \in updateTable(This)
    /\ Len(rowsCache) = 2
    /\ \E i, j \in 1..2 : /\ CellText(rowsCache[i], 2) = <<"c">>
                          /\ Len(rowsCache[j].cells) = 2
    /\ filteredRows = <<>>
    /\ tableInfo.filteredTotal = 0

\* Row rowData has, in column c, a text that is no DD/MM/YYYY under an
\* active bucketed-date filter.
MalformedUnderBucket(rowData, c) ==
    /\ c \in DOMAIN currentDateFilters
    /\ currentDateFilters[c] \in Buckets
    /\ ~IsDateFormat(CellText(rowData, c))

\* Row rowData is excluded by the bucketed-date filter of a column before
\* column c: its date there is outside the bucket.
ExcludedBefore(rowData, c) ==
    \E k \in DOMAIN currentDateFilters :
        /\ k < c
        /\ currentDateFilters[k] \in Buckets
        /\ IsDateFormat(CellText(rowData, k))
        /\ ~ClaimedInBucket(TextDay(CellText(rowData, k)), currentDateFilters[k])

\* The update cycle has ended in the error: nothing of the filtered rows
\* and of the summary has changed.
Propagated(E) ==
    E.threw /\ E.filteredRows = filteredRows /\ E.tableInfo = tableInfo

\* C18 as stated. With an active bucketed-date filter on a column, if any
\* row of the cache has in that column a text that is no DD/MM/YYYY, the
\* update cycle raises the error.
C18_BucketAlwaysThrows ==
    (\E i \in 1..Len(rowsCache) : \E c \in Columns :
        MalformedUnderBucket(rowsCache[i], c))
    => \A E \in updateTable(This) : Propagated(E)

\* C18. With an active bucketed-date filter on a column, if any row of the
\* cache has in that column a text that is no DD/MM/YYYY (an empty or a
\* missing cell too) and is not already excluded by an active
\* bucketed-date filter on a lower-numbered column, the update cycle
\* raises the error and ends there: the row is neither passed nor excluded.
C18_BucketThrows ==
    (\E i \in 1..Len(rowsCache) : \E c \in Columns :
        /\ MalformedUnderBucket(rowsCache[i], c)
        /\ ~ExcludedBefore(rowsCache[i], c))
    => \A E \in updateTable(This) : Propagated(E)

\* An update cycle has ended in the error: the month filter of column 2 is
\* active, a row of the cache lacks that cell, and the filtered rows still
\* hold the rows the construction put there.
C18_Witness ==
    /\ threw
    /\ This \in updateTable(This)
    /\ currentDateFilters[1] = "" /\ currentDateFilters[2] = "month"
    /\ Len(rowsCache) = 2
    /\ \E i \in 1..2 : Len(rowsCache[i].cells) = 2
    /\ Len(filteredRows) = 2

\* ------------------------------------------------ claims on isDateInRange

Called == probe.result # "none"

\* C19 as stated. isDateInRange called with a range that is none of
\* today, week, month, quarter, year returns true whatever the text, and
\* raises no error.
C19_UnknownBucketAlwaysPasses ==
    (Called /\ probe.range \notin Buckets) => probe.result = "true"

\* C19. isDateInRange called with a range that is none of today, week,
\* month, quarter, year and with a text that is DD/MM/YYYY returns true,
\* and raises no error.
C19_UnknownBucketPasses ==
    (Called /\ probe.range \notin Buckets /\ IsDateFormat(probe.dateStr))
    => probe.result = "true"

\* On 12/03/2025, isDateInRange('01/12/2024', 'decade') has returned true.
C19_Witness ==
    /\ now = Now0
    /\ probe = [dateStr |-> FormatDate(2024, 11, 1), range |-> "decade",
                result |-> "true"]

\* C20. For every current date and every bucket (today, week, month,
\* quarter, year), isDateInRange returns true for the days of the bucket,
\* its first and last day included, and false for every other day, the day
\* before its first day and the day after its last day among them.
C20_BucketBoundsInclusive ==
    (Called /\ probe.range \in Buckets /\ IsDateFormat(probe.dateStr))
    => probe.result =
          (IF ClaimedInBucket(TextDay(probe.dateStr), probe.range)
           THEN "true" ELSE "false")

\* On Sunday 29/06/2025, isDateInRange('05/07/2025', 'week'), the
\* Saturday that ends the week, has returned true.
C20_Witness ==
    /\ now = [y |-> 2025, m0 |-> 5, d |-> 29]
    /\ probe = [dateStr |-> FormatDate(2025, 6, 5), range |-> "week",
                result |-> "true"]

\* ------------------------------------------ claims on pages and summary

\* totalPages = ceil(filteredCount / pageSize), and 1 when the page size is
\* unbounded.
ClaimedTotalPages(E) ==
    IF E.displayLimit.k = "inf" THEN 1
    ELSE (Len(E.filteredRows) + E.displayLimit.m - 1) \div E.displayLimit.m

Max(a, b) == IF a >= b THEN a ELSE b
Min(a, b) == IF a <= b THEN a ELSE b

PageInRange(E) ==
    1 <= E.currentPageIndex /\ E.currentPageIndex <= Max(1, ClaimedTotalPages(E))

\* The first index of the slice of a bounded page size is an index of the
\* filtered rows (or 0 when there is none), and every displayed surface is
\* the surface of a filtered row.
SliceWithinView(E) ==
    /\ E.displayLimit.k = "num" =>
          /\ E.displayLimit.m * (E.currentPageIndex - 1) <= Len(E.filteredRows)
          /\ Len(E.filteredRows) > 0 =>
                E.displayLimit.m * (E.currentPageIndex - 1) < Len(E.filteredRows)
    /\ \A i \in 1..Len(E.tbody) :
          \E k \in 1..Len(E.filteredRows) :
              E.filteredRows[k].originalIndex = E.tbody[i].tag

\* Engine E ends a completed cycle begun on page `page`: the page was kept
\* unless it was beyond the last page, and then it is 1.
Clamped(page, E) ==
    /\ E.currentPageIndex =
          (IF page > ClaimedTotalPages(E) THEN 1 ELSE page)
    /\ PageInRange(E)
    /\ SliceWithinView(E)

\* C21. Every update cycle (after a change of a value filter, of the page
\* size, a click on a page button, a call of updateTable) sets the current
\* page to 1 when it is beyond totalPages; after the cycle
\* 1 <= currentPage <= max(1, totalPages), and the slice stays within the
\* filtered rows.
C21_PaginationClamp ==
    /\ PageInRange(This)
    /\ \A E \in updateTable(This) : Clamped(currentPageIndex, E)
    /\ \A i \in DOMAIN pagination :
          ~pagination[i].disabled =>
              \A E \in pageClick(This, i) : Clamped(pagination[i].pageIndex, E)
    /\ \A value \in DisplayLimitOptions :
          \A E \in displayLimitChange(This, value) : Clamped(currentPageIndex, E)
    /\ \A colIndex \in ValueFilterColumns(allRows) :
          \A filterVal \in ValueOptions(allRows, colIndex) :
              \A E \in valueFilterChange(This, colIndex, filterVal) :
                  Clamped(currentPageIndex, E)

\* On page 2 of two pages of one row, a value filter that keeps one row
\* brings the engine back to page 1.
C21_Witness ==
    /\ hasControls
    /\ currentPageIndex = 2
    /\ displayLimit = Int2Js(1)
    /\ Len(filteredRows) = 2
    /\ \E colIndex \in ValueFilterColumns(allRows) :
          \E filterVal \in ValueOptions(allRows, colIndex) :
              \E E \in valueFilterChange(This, colIndex, filterVal) :
                  Len(E.filteredRows) = 1 /\ E.currentPageIndex = 1

\* C22. With the unbounded page size ('all'), totalPages is 1 (the last
\* jump of the page selector leads to page 1) and the cycle displays the
\* whole of the filtered rows: shown = filteredTotal.
C22_UnboundedShowsAll ==
    displayLimit.k = "inf" =>
        /\ Len(tbody) = Len(filteredRows)
        /\ tableInfo.showing = Int2Js(tableInfo.filteredTotal)
        /\ hasControls => pagination[Len(pagination)].pageIndex = 1

\* min(pageSize, n), the page size being a positive integer or unbounded.
MinWithLimit(limit, n) == IF limit.k = "num" THEN Min(limit.m, n) ELSE n

\* C23. After every completed update cycle the counts of the summary are:
\* shown = the number of rows on the display surface, filteredTotal = the
\* length of the filtered rows, grandTotal = the length of the cache, and
\* 0 <= shown <= min(pageSize, filteredTotal) <= grandTotal.
C23_SummaryCounts ==
    ~threw =>
        /\ tableInfo.showing = Int2Js(Len(tbody))
        /\ tableInfo.filteredTotal = Len(filteredRows)
        /\ tableInfo.total = Len(rowsCache)
        /\ Len(tbody) <= MinWithLimit(displayLimit, Len(filteredRows))
        /\ MinWithLimit(displayLimit, Len(filteredRows)) <= Len(rowsCache)

\* The pages of the window {currentPage - 1, currentPage, currentPage + 1}
\* that exist, in order.
RECURSIVE ClaimedWindow(_, _, _)
ClaimedWindow(page, last, totalPages) ==
    IF page > last THEN <<>>
    ELSE (IF 1 <= page /\ page <= totalPages THEN <<page>> ELSE <<>>)
            \o ClaimedWindow(page + 1, last, totalPages)

IsPageButton(button) == button.text = "page"

\* C24. After every update cycle the page selector holds the first jump,
\* a button for each page of {currentPage - 1, currentPage, currentPage + 1}
\* within 1..totalPages (the current one active), and the last jump; the
\* first jump is disabled on page 1 and the last on page totalPages; an
\* enabled first jump leads to page 1, an enabled last jump to page
\* totalPages, and a page button to its page.
C24_PageSelector ==
    LET totalPages == ClaimedTotalPages(This)
        window == ClaimedWindow(currentPageIndex - 1, currentPageIndex + 1, totalPages)
        n == Len(pagination)
        GoesTo(i, page) == \A E \in pageClick(This, i) : E.currentPageIndex = page
    IN  hasControls =>
        /\ n = Len(window) + 2
        /\ pagination[1].text = "<<" /\ pagination[n].text = ">>"
        /\ \A i \in 1..Len(window) :
              /\ IsPageButton(pagination[i + 1])
              /\ pagination[i + 1].pageIndex = window[i]
              /\ pagination[i + 1].active <=> window[i] = currentPageIndex
              /\ ~pagination[i + 1].disabled
              /\ GoesTo(i + 1, window[i])
        /\ currentPageIndex = 1 => pagination[1].disabled
        /\ currentPageIndex = totalPages => pagination[n].disabled
        /\ ~pagination[1].disabled => GoesTo(1, 1)
        /\ ~pagination[n].disabled => GoesTo(n, totalPages)

\* ------------------------------------------- claims on the update cycle

\* The displayed surfaces are surfaces of rows of the cache, in the order
\* the cache has them.
DisplayFollowsCache(E) ==
    /\ \A i \in 1..Len(E.tbody) :
          \E k \in 1..Len(E.rowsCache) : E.rowsCache[k].originalIndex = E.tbody[i].tag
    /\ \A i, j \in 1..Len(E.tbody) :
          i < j =>
             \E k, l \in 1..Len(E.rowsCache) :
                /\ k < l
                /\ E.rowsCache[k].originalIndex = E.tbody[i].tag
                /\ E.rowsCache[l].originalIndex = E.tbody[j].tag

\* C25. When a sort request or a call of updateTable returns, normally or
\* by the error of a date filter, the display follows the order the Sort
\* State has given to the cache: the cache, the Sort State and the display
\* are not left inconsistent by a cycle executed in part.
C25_NoIntermediateState ==
    /\ \A E \in updateTable(This) : DisplayFollowsCache(E)
    /\ \A columnIndex \in SortableColumns :
          \A E \in handleSort(This, columnIndex) : DisplayFollowsCache(E)

\* The surface tr shows the Row Record rowData: as many cells as the record
\* has Cell Snapshots, each with the markup and the title of its snapshot,
\* and no title attribute when the snapshot has none.
SurfaceShows(tr, rowData) ==
    /\ Len(tr.cells) = Len(rowData.cells)
    /\ \A j \in 1..Len(tr.cells) :
          j <= Len(rowData.cells) =>
             /\ tr.cells[j].innerHTML = rowData.cells[j].innerHTML
             /\ GetAttributeOrEmpty(tr.cells[j], "title") = rowData.cells[j].title
             /\ (rowData.cells[j].title = "" => ~HasAttr(tr.cells[j], "title"))

\* The Row Record a displayed surface stands for: the one of its
\* data-original-index.
RecordOf(E, tr) ==
    E.rowsCache[CHOOSE k \in 1..Len(E.rowsCache) : E.rowsCache[k].originalIndex = tr.tag]

\* C30. After every update cycle each displayed surface, cloned or taken
\* from the pool, has exactly the cells of its Row Record: as many cells as
\* the record has Cell Snapshots, with the markup and the title of each
\* snapshot, also in a table whose rows have different numbers of cells.
C30_ContentIgnoresHistory ==
    \A E \in updateTable(This) :
        ~E.threw =>
            \A i \in 1..Len(E.tbody) : SurfaceShows(E.tbody[i], RecordOf(E, E.tbody[i]))

\* ------------------------------------- claims on construction and teardown

\* C26. A construction with no container fails with the error 'Table
\* container is required', and one over a container without a table with
\* 'No table found in container'; the error is the outcome of the
\* construction itself, no engine is created, none is bound to the
\* container, and the rows of the container are left as they were.
C26_ConstructionErrors ==
    /\ \A W \in new(World, "null") :
          /\ W.error = ContainerRequired
          /\ W.self = self
          /\ W.keys = keys
          /\ W.container = container
          /\ W.engine.tbody = tbody
    /\ ~container.table =>
          \A W \in new(World, "container") :
             /\ W.error = NoTableFound
             /\ W.self = self
             /\ W.keys = keys
             /\ W.container.manager = NoManager
             /\ W.engine.tbody = tbody

\* A construction over a container without a table has failed.
C26_Witness ==
    /\ ~container.table
    /\ error = NoTableFound
    /\ self = NoManager
    /\ container.manager = NoManager

\* The engine object O has been destroyed and holds no surface and no
\* Row Record.
TornDown(O) ==
    /\ "container" \notin O.keys
    /\ O.rowPool = <<>>
    /\ O.rowsCache = <<>>

\* C27. The container is bound to no engine but the latest one, every
\* engine constructed before the latest has been destroyed and has an empty
\* pool and an empty cache, and a construction over the container leaves
\* it bound to the new engine, the engine that was bound having been
\* destroyed, with its pool and its cache empty, when the new cache is
\* built.
C27_OneLiveEngine ==
    /\ container.manager \in {NoManager, self}
    /\ \A i \in 1..Len(earlier) : TornDown(earlier[i])
    /\ container.table =>
          \A W \in new(World, "container") :
             /\ W.error = ""
             /\ W.self = self + 1
             /\ W.container.manager = W.self
             /\ "container" \in W.keys
             /\ \A i \in 1..Len(W.earlier) : TornDown(W.earlier[i])
             /\ (self # NoManager /\ container.manager = self) =>
                   /\ Len(W.earlier) = self
                   /\ W.earlier[self].keys = DestroyedKeys

\* A second engine has been constructed over a container bound to the
\* first, which had rows in its cache.
C27_Witness ==
    /\ self = 2
    /\ container.manager = 2
    /\ Len(earlier) = 1
    /\ earlier[1].keys = DestroyedKeys
    /\ Len(rowsCache) > 0

\* C28. After destroy(), from any state of the engine, the container holds
\* no pagination element, no display-limit wrapper, no filter control and
\* no sort button, it is bound to no engine, and the pool and the Row Cache
\* of the engine are empty (they exist and are empty when the engine was
\* not destroyed before).
C28_TeardownControls ==
    /\ self # NoManager =>
          LET W == destroy(World)
          IN  /\ W.container.pagination = 0
              /\ W.container.displayLimit = 0
              /\ W.container.filter = 0
              /\ W.container.sortButton = 0
              /\ W.engine.pagination = <<>>
              /\ W.engine.sortButtons = <<>>
              /\ W.container.manager = NoManager
              /\ TornDown(Remains(W))
              /\ Live => W.keys = DestroyedKeys
    /\ \A i \in 1..Len(earlier) :
          LET W == destroyEarlier(World, i)
          IN  /\ W.container.manager # i
              /\ TornDown(W.earlier[i])

\* An engine with controls and rows has been destroyed.
C28_Witness ==
    /\ hasControls
    /\ self # NoManager
    /\ keys = DestroyedKeys
    /\ container.manager = NoManager
    /\ container.pagination = 0
    /\ container.filter = 0
    /\ container.sortButton = 0
    /\ tableInfo.total > 0

\* C29. After destroy() of a live engine, from any sort, filter, page and
\* page size, the tbody holds the n rows of the source, in the order of the
\* source, and no surface the engine rendered.
C29_TeardownRestoresRows ==
    Live =>
       LET W == destroy(World)
       IN  /\ Len(W.engine.tbody) = Len(allRows)
           /\ \A i \in 1..Len(W.engine.tbody) :
                 /\ W.engine.tbody[i].id <= 0
                 /\ i <= Len(allRows) => W.engine.tbody[i].cells = allRows[i].cells

\* ------------------------------------------- claims on the reused surfaces

\* The surfaces an engine holds: pooled, then displayed.
Surfaces(E) == E.rowPool \o E.tbody

\* The cell patched is the cell old patched from the Cell Snapshot:
\* each attribute the snapshot names has the value of the snapshot, each
\* other attribute of old but title is kept with its value, and there is no
\* attribute that comes from neither.
AttributesPatched(old, patched, snapshot) ==
    /\ \A n \in DOMAIN snapshot.attributes :
          HasAttr(patched, n) /\ patched.attrs[n] = snapshot.attributes[n]
    /\ \A n \in (DOMAIN old.attrs) \ (DOMAIN snapshot.attributes) :
          n # "title" => HasAttr(patched, n) /\ patched.attrs[n] = old.attrs[n]
    /\ \A n \in DOMAIN patched.attrs :
          n \in (DOMAIN snapshot.attributes) \cup (DOMAIN old.attrs)

\* C31. When an update cycle reuses a surface for a row, each cell of the
\* surface has every attribute its Cell Snapshot names, with the value of
\* the snapshot, and keeps every other attribute the surface had before the
\* cycle, with its value; only title may have been removed.
C31_AttributePatching ==
    \A E \in updateTable(This) :
        ~E.threw =>
            \A i \in 1..Len(E.tbody) :
                \A k \in 1..Len(Surfaces(This)) :
                    Surfaces(This)[k].id = E.tbody[i].id =>
                        /\ Len(E.tbody[i].cells) = Len(Surfaces(This)[k].cells)
                        /\ \A j \in 1..Len(E.tbody[i].cells) :
                              j <= Len(RecordOf(E, E.tbody[i]).cells) =>
                                 AttributesPatched(Surfaces(This)[k].cells[j],
                                                   E.tbody[i].cells[j],
                                                   RecordOf(E, E.tbody[i]).cells[j])

\* A displayed surface shows a row whose second cell has no attribute, and
\* its second cell has the class its previous occupant left.
C31_Witness ==
    \E i \in 1..Len(tbody) :
        /\ Len(tbody[i].cells) >= 2
        /\ Len(RecordOf(This, tbody[i]).cells) >= 2
        /\ HasAttr(tbody[i].cells[2], "class")
        /\ "class" \notin DOMAIN RecordOf(This, tbody[i]).cells[2].attributes

\* ------------------------------------------- claims on the order of the cache

\* The orders of the cache of an engine that reaches the Sort State of E
\* from the original order of its rows.
OrdersFromSource(E) ==
    UNION {sortRows(c, E.currentSort.column, E.currentSort.direction) :
             c \in SortByOriginalIndex(E.rowsCache)}

\* C32. Under an active sort the order of the Row Cache is the one the Sort
\* State gives to the rows taken in their original order, whatever header
\* activations came before: an engine that reaches the same Sort State over
\* the same rows by another sequence of activations has the same order.
C32_SortIgnoresHistory ==
    \A columnIndex \in SortableColumns :
        \A E \in handleSort(This, columnIndex) :
            (SortActive(E) /\ ~E.threw) => E.rowsCache \in OrdersFromSource(E)

\* The cycle that ends in E has left the cache, the Sort State, the Filter
\* State and the Filtered View as they are.
KeepsSortAndFilter(E) ==
    /\ E.rowsCache = rowsCache
    /\ E.currentSort = currentSort
    /\ E.currentDateFilters = currentDateFilters
    /\ E.currentValueFilters = currentValueFilters
    /\ E.currentDateRangeFilters = currentDateRangeFilters
    /\ E.filteredRows = filteredRows

C34_DisplayEmptyIffViewEmpty ==
    \A E \in updateTable(This) :
        (~E.threw /\ E.displayLimit.k = "num") =>
            (E.tbody = <<>> <=> E.filteredRows = <<>>)

\* A cycle has displayed the only row a value filter lets through, out of
\* two, with a page size of 1.
C34_Witness ==
    /\ ~threw
    /\ displayLimit = Int2Js(1)
    /\ Len(rowsCache) = 2
    /\ Len(filteredRows) = 1
    /\ Len(tbody) = 1
    /\ \E colIndex \in DOMAIN currentValueFilters : currentValueFilters[colIndex] # <<>>

\* The buttons of the pagination element of E that have a click listener.
EnabledButtons(E) == {i \in DOMAIN E.pagination : ~E.pagination[i].disabled}

\* The engines reached from those of S by at most k clicks on enabled
\* buttons of the pagination element.
RECURSIVE ClickClosure(_, _)
ClickClosure(S, k) ==
    IF k = 0 THEN S
    ELSE ClickClosure(
            S \cup UNION {UNION {pageClick(E, i) : i \in EnabledButtons(E)} : E \in S},
            k - 1)

SourceOrder(cache) ==
    [k \in 1..Len(cache) |->
        cache[CHOOSE i \in 1..Len(cache) : cache[i].originalIndex = k - 1].cells]

\* C36. An engine constructed over a container bound to a live engine has
\* in its Row Cache the rows the cache of that engine had, as many and in
\* the same original order, whatever the sort, the filters, the page and
\* the page size of that engine.
C36_ReconstructionKeepsData ==
    (Live /\ container.manager = self) =>
        \A W \in new(World, "container") :
            SourceOrder(W.engine.rowsCache) = SourceOrder(rowsCache)

\* C37. destroy() of an engine that has been destroyed ends without an
\* error and leaves the container, its rows, its binding and its controls,
\* and every other engine, as they are.
C37_DestroyRepeatable ==
    /\ (self # NoManager /\ ~Live) =>
          LET W == destroy(World)
          IN  /\ W.container = container
              /\ W.earlier = earlier
              /\ W.engine.tbody = tbody
              /\ W.engine.tableInfo = tableInfo
              /\ W.error = error
    /\ \A i \in 1..Len(earlier) :
          LET W == destroyEarlier(World, i)
          IN  /\ W.container = container
              /\ W.engine = This
              /\ W.keys = keys
              /\ W.error = error
              /\ \A j \in 1..Len(earlier) : j # i => W.earlier[j] = earlier[j]

\* The first engine has been destroyed again while the container, with
\* its controls, is bound to the second.
C37_Witness ==
    /\ self = 2
    /\ Live
    /\ hasControls
    /\ container.manager = 2
    /\ container.pagination = 1
    /\ Len(earlier) = 1
    /\ earlier[1].keys = {}

\* ------------------------------------------- claim on an aborted update cycle

\* Engine E has left the filtered rows, the current page, the displayed
\* surfaces, the pool and the summary of engine S as they were.
LeavesView(S, E) ==
    /\ E.filteredRows = S.filteredRows
    /\ E.currentPageIndex = S.currentPageIndex
    /\ E.tbody = S.tbody
    /\ E.rowPool = S.rowPool
    /\ E.tableInfo = S.tableInfo

\* In engine E the bucketed-date filter of column c is active and row
\* rowData has there a text that is no DD/MM/YYYY.
Offends(E, rowData, c) ==
    /\ c \in DOMAIN E.currentDateFilters
    /\ E.currentDateFilters[c] \in Buckets
    /\ ~IsDateFormat(CellText(rowData, c))

\* In engine E a bucketed-date filter on a column before column c excludes
\* row rowData: its date there is outside the bucket.
ExcludesBefore(E, rowData, c) ==
    \E k \in DOMAIN E.currentDateFilters :
        /\ k < c
        /\ E.currentDateFilters[k] \in Buckets
        /\ IsDateFormat(CellText(rowData, k))
        /\ ~ClaimedInBucket(TextDay(CellText(rowData, k)),
                            E.currentDateFilters[k])

\* Each row of the cache of engine E with each column: the candidates for
\* the row and the filter that raise the error.
Offenders(E) ==
    {<<E.rowsCache[i], c>> : i \in 1..Len(E.rowsCache), c \in Columns}

\* The update cycles that may follow on engine E: a further cycle, a sort
\* request, a change of a bucketed-date dropdown.
LaterCycles(E) ==
    updateTable(E)
        \cup UNION {handleSort(E, columnIndex) : columnIndex \in SortableColumns}
        \cup UNION {dateFilterChange(E, colIndex, filterVal) :
                        colIndex \in {1, 2}, filterVal \in DateFilterOptions}

\* C38 as stated. An update cycle that ends in the error of a bucketed-date
\* filter leaves the filtered rows, the current page, the displayed
\* surfaces, the pool and the summary as they were, and every later cycle
\* ends in the error too as long as the filter that raised it is active.
C38_AbortsWhileFilterActive ==
    \A E \in LaterCycles(This) :
        E.threw =>
            /\ LeavesView(This, E)
            /\ \A o \in Offenders(E) :
                  Offends(E, o[1], o[2]) /\ ~ExcludesBefore(E, o[1], o[2]) =>
                    \A L \in LaterCycles(E) :
                        Offends(L, o[1], o[2]) => L.threw

\* C38. An update cycle that ends in the error of a bucketed-date filter
\* leaves the filtered rows, the current page, the displayed surfaces, the
\* pool and the summary as they were, and every later cycle ends in the
\* error too, leaving them as they were, as long as the filter that raised
\* it is active and no bucketed-date filter on a lower-numbered column
\* excludes the offending row.
C38_AbortLeavesView ==
    \A E \in LaterCycles(This) :
        E.threw =>
            /\ LeavesView(This, E)
            /\ \A o \in Offenders(E) :
                  Offends(E, o[1], o[2]) /\ ~ExcludesBefore(E, o[1], o[2]) =>
                    \A L \in LaterCycles(E) :
                        Offends(L, o[1], o[2]) /\ ~ExcludesBefore(L, o[1], o[2])
                            => L.threw /\ LeavesView(E, L)

\* Two update cycles have ended in the error: the month filter of column 2
\* is active on a row whose cell there is no date, a sort request has
\* followed the first error, and the filtered rows still hold every row.
C38_Witness ==
    /\ threw
    /\ This \in updateTable(This)
    /\ SortActive(This)
    /\ 2 \in DOMAIN currentDateFilters
    /\ currentDateFilters[2] = "month"
    /\ \E i \in 1..Len(rowsCache) :
          Offends(This, rowsCache[i], 2) /\ ~ExcludesBefore(This, rowsCache[i], 2)
    /\ Len(filteredRows) = Len(rowsCache)
    /\ tbody # <<>>

====
